---- MODULE Spec2Model ----
(***************************************************************************)
(* A model of supabase-typed-query's query engine: the condition compiler  *)
(* (applyCondition, applyOrConditions, buildSupabaseQuery), the immutable  *)
(* chain operations of QueryBuilder and the terminal operations that       *)
(* compile a Query into a sequence of backend filter-builder calls.        *)
(*                                                                         *)
(* JavaScript values are modelled by tokens (strings): "null" is null,     *)
(* "0" the number 0, "true"/"false" the booleans, "x" and "y" two ordinary *)
(* truthy scalars, "[x,y]" and "[]" two arrays.  Objects are records with  *)
(* an identity (ref), because === compares objects by reference.           *)
(* JavaScript objects used as maps keep insertion order, so a map is a     *)
(* sequence of entries [k, v] with distinct keys.                          *)
(***************************************************************************)
EXTENDS Integers, Sequences, FiniteSets, TLC

(***************************************************************************)
(* Bounds of the model.                                                    *)
(***************************************************************************)
\* the longest condition list (number of OR branches) that is compiled
MaxBranches == 2
\* terminal operations issued in one behaviour
MaxExec == 2
\* Query values alive in one behaviour of the program
MaxQueries == 2

\* the MappedQuery values of one pipeline
MaxMapped == 2
\* the limit / offset calls of one pipeline
MaxPaging == 3
\* the mutations made through one Entity facade
MaxMutations == 2

(***************************************************************************)
(* Ordered maps (JavaScript objects used as records).                      *)
(***************************************************************************)
Entry(k, v) == [k |-> k, v |-> v]

Keys(m) == {m[i].k : i \in 1..Len(m)}

Has(m, k) == \E i \in 1..Len(m) : m[i].k = k

Get(m, k) == m[CHOOSE i \in 1..Len(m) : m[i].k = k].v

\* obj[k] = v : an existing key keeps its position, a new key goes last
Put(m, k, v) ==
  IF Has(m, k)
    THEN [i \in 1..Len(m) |-> IF m[i].k = k THEN Entry(k, v) ELSE m[i]]
    ELSE Append(m, Entry(k, v))

\* delete obj[k]
Del(m, ks) == SelectSeq(m, LAMBDA e : e.k \notin ks)

\* an optional map: undefined, or an object
None == [def |-> FALSE, m |-> <<>>]
Some(m) == [def |-> TRUE, m |-> m]

(***************************************************************************)
(* Values of a where entry: a scalar (or null), or an object.  v is the    *)
(* value's string conversion, as a template literal `${value}` yields it.  *)
(***************************************************************************)
Lit(tok) == [t |-> "lit", v |-> tok, ref |-> 0, o |-> <<>>]
Obj(ref, o) == [t |-> "obj", v |-> "[object Object]", ref |-> ref, o |-> o]

FalsyTokens == {"null", "0", "false", ""}
ArrayTokens == {"[x,y]", "[]"}

\* the elements of an array token
ListOf(tok) == IF tok = "[x,y]" THEN <<"x", "y">> ELSE <<>>

\* !tok
Falsy(tok) == tok \in FalsyTokens

\* value === null
IsNull(v) == v.t = "lit" /\ v.v = "null"

\* a === b : scalars by value, objects by reference
StrictEq(a, b) ==
  IF a.t = "lit" /\ b.t = "lit" THEN a.v = b.v
  ELSE a.t = "obj" /\ b.t = "obj" /\ a.ref = b.ref

\* value && typeof value === "object" && !Array.isArray(value) && !(value instanceof Date)
IsOperatorObject(v) == v.t = "obj"

\* the operators applyCondition turns into one backend call each, in call order
OpOrder == <<"gt", "gte", "lt", "lte", "neq", "like", "ilike">>
CmpOps == {OpOrder[i] : i \in 1..Len(OpOrder)}
AllOps == CmpOps \cup {"in", "is"}

(***************************************************************************)
(* Backend filter-builder calls.  One record shape for every call:         *)
(* op(f, v), match(m), or(cl), limit(lo), range(lo, hi).                   *)
(***************************************************************************)
NoVal == Lit("-")

Call(op, f, v) ==
  [op |-> op, f |-> f, v |-> v, m |-> <<>>, cl |-> <<>>, lo |-> 0, hi |-> 0]

MatchCall(m) ==
  [op |-> "match", f |-> "", v |-> NoVal, m |-> m, cl |-> <<>>, lo |-> 0, hi |-> 0]

OrCall(cl) ==
  [op |-> "or", f |-> "", v |-> NoVal, m |-> <<>>, cl |-> cl, lo |-> 0, hi |-> 0]

RangeCall(op, lo, hi) ==
  [op |-> op, f |-> "", v |-> NoVal, m |-> <<>>, cl |-> <<>>, lo |-> lo, hi |-> hi]

\* one call op(key, value) per entry of a map, in the map's order
CallsOf(op, m) == [i \in 1..Len(m) |-> Call(op, m[i].k, Lit(m[i].v))]

\* Tables that don't have a deleted field
TABLES_WITHOUT_DELETED == {}

(***************************************************************************)
(* applyCondition: the single-branch compile.  A condition is the object   *)
(* { where, is, wherein }; createQuery, or and whereId never set its       *)
(* gt/gte/lt/lte/neq/like/ilike slots, so the destructured gt .. ilike of  *)
(* the condition are undefined and the maps the calls are made from are    *)
(* the operators extracted from where.                                     *)
(***************************************************************************)
Condition(where, is, wherein) == [where |-> where, is |-> is, wherein |-> wherein]

\* if (whereGt) extractedOperators.gt = whereGt, for each of the seven operators
TopLevelOperators(where) ==
  [op \in CmpOps |->
     IF Has(where, op) /\ IsOperatorObject(Get(where, op)) THEN Get(where, op).o ELSE <<>>]

\* const { gt, gte, lt, lte, neq, like, ilike, ...rest } = where
Rest(where) == Del(where, CmpOps)

\* !ops.gte && !ops.gt && ... && !ops.in && !ops.is
NoOperatorsFound(ops) == \A op \in AllOps : ~Has(ops, op) \/ Falsy(Get(ops, op))

\* One iteration of the loop over Object.entries(rest).  st holds the loop's
\* state: extractedOperators (ex), processedWhere (pw) and the condition's own
\* wherein and is slots (cw, ci), which the loop assigns.  wherein and is are the
\* values destructured from the condition before the loop.
ExtractEntry(st, e, wherein, is) ==
  IF IsOperatorObject(e.v)
    THEN LET ops == e.v.o
         IN [ex |-> [op \in CmpOps |->
                       IF Has(ops, op) THEN Put(st.ex[op], e.k, Get(ops, op)) ELSE st.ex[op]],
             cw |-> IF Has(ops, "in")
                      THEN Some(Put(IF ~wherein.def THEN <<>> ELSE st.cw.m, e.k, Get(ops, "in")))
                      ELSE st.cw,
             ci |-> IF Has(ops, "is")
                      THEN Some(Put(IF ~is.def THEN <<>> ELSE st.ci.m, e.k, Get(ops, "is")))
                      ELSE st.ci,
             pw |-> IF NoOperatorsFound(ops) THEN Put(st.pw, e.k, e.v) ELSE st.pw]
    ELSE [st EXCEPT !.pw = Put(@, e.k, e.v)]

RECURSIVE ExtractLoop(_, _, _, _)
ExtractLoop(st, entries, wherein, is) ==
  IF entries = <<>> THEN st
  ELSE ExtractLoop(ExtractEntry(st, Head(entries), wherein, is), Tail(entries), wherein, is)

\* the state of the condition and of the locals after the loop
Extracted(condition) ==
  ExtractLoop([ex |-> TopLevelOperators(condition.where), pw |-> <<>>,
               cw |-> condition.wherein, ci |-> condition.is],
              Rest(condition.where), condition.wherein, condition.is)

\* query.select("*").match(processedWhere).is("deleted", null)
BaseCalls(table, processedWhere) ==
  <<Call("select", "*", NoVal), MatchCall(processedWhere)>>
    \o (IF table \notin TABLES_WITHOUT_DELETED
          THEN <<Call("is", "deleted", Lit("null"))>> ELSE <<>>)

RECURSIVE OperatorCalls(_, _)
OperatorCalls(merged, ops) ==
  IF ops = <<>> THEN <<>>
  ELSE CallsOf(Head(ops), merged[Head(ops)]) \o OperatorCalls(merged, Tail(ops))

\* A plausible slip: the IS conditions applied before the WHERE IN conditions.
FilterCallsIsFirst(base, wherein, is, merged) ==
  base \o (IF is.def THEN CallsOf("is", is.m) ELSE <<>>)
       \o (IF wherein.def THEN CallsOf("in", wherein.m) ELSE <<>>)
       \o OperatorCalls(merged, OpOrder)

\* the chain base -> wherein -> is -> gt, gte, lt, lte, neq -> like, ilike;
\* wherein and is are the objects the locals of that name refer to
FilterCalls(base, wherein, is, merged) ==
  base \o (IF wherein.def THEN CallsOf("in", wherein.m) ELSE <<>>)
       \o (IF is.def THEN CallsOf("is", is.m) ELSE <<>>)
       \o OperatorCalls(merged, OpOrder)

\* The calls applyCondition issues and the condition object as it leaves it.
\* The locals wherein and is were read before the loop: when the slot was
\* undefined the local stays undefined although the loop gives the condition a
\* new object; when it was an object, the loop writes into that same object.
ApplyCondition(table, condition) ==
  LET st == Extracted(condition)
      wherein == IF condition.wherein.def THEN st.cw ELSE None
      is == IF condition.is.def THEN st.ci ELSE None
  IN [calls |-> FilterCalls(BaseCalls(table, st.pw), wherein, is, st.ex),
      condition |-> [condition EXCEPT !.wherein = st.cw, !.is = st.ci]]

(***************************************************************************)
(* applyOrConditions: the multi-branch compile.  The argument of or(...)   *)
(* is a string of clauses separated by commas; a clause is modelled by its *)
(* parts (field, operator, value text, quoted or not, list of an in), and  *)
(* joining strings with "," by concatenating the clause sequences: the     *)
(* joined string does not say where one branch ends and the next begins.   *)
(***************************************************************************)
Clause(f, op, v, quoted, vs) == [f |-> f, op |-> op, v |-> v, quoted |-> quoted, vs |-> vs]

\* A plausible slip: some branch, rather than every branch, has the pair.
IsCommonInSomeCondition(conditions, e) ==
  \E i \in 1..Len(conditions) :
     /\ Has(conditions[i].where, e.k)
     /\ StrictEq(Get(conditions[i].where, e.k), e.v)

\* conditions.every((condition) => condition.where[key] === value)
IsCommonCondition(conditions, e) ==
  \A i \in 1..Len(conditions) :
     /\ Has(conditions[i].where, e.k)
     /\ StrictEq(Get(conditions[i].where, e.k), e.v)

\* the entries of commonConditions, in the first condition's key order
CommonConditions(conditions) ==
  SelectSeq(conditions[1].where, LAMBDA e : IsCommonCondition(conditions, e))

\* A plausible slip: the common keys are not deleted from the copy.
VaryingWhereKeepsCommon(where, common) == where

\* newWhere = { ...condition.where } with every common key deleted
VaryingWhere(where, common) == Del(where, Keys(common))

\* the conditions with the common parts removed
VaryingConditions(conditions) ==
  LET common == CommonConditions(conditions)
  IN [i \in 1..Len(conditions) |->
        Condition(VaryingWhere(conditions[i].where, common),
                  conditions[i].is, conditions[i].wherein)]

\* A plausible slip: every common pair applied with eq.
CommonCallEqOnly(e) == Call("eq", e.k, e.v)

\* value === null ? query.is(key, null) : query.eq(key, value)
CommonCall(e) ==
  IF IsNull(e.v) THEN Call("is", e.k, Lit("null")) ELSE Call("eq", e.k, e.v)

CommonCalls(common) == [i \in 1..Len(common) |-> CommonCall(common[i])]

\* varyingConditions.every((condition) => Object.keys(condition.where).length === 0)
NoVaryingConditions(varying) == \A i \in 1..Len(varying) : varying[i].where = <<>>

\* key.is.null for null, key.eq."value" otherwise
WhereParts(where) ==
  [i \in 1..Len(where) |->
     IF IsNull(where[i].v)
       THEN Clause(where[i].k, "is", "null", FALSE, <<>>)
       ELSE Clause(where[i].k, "eq", where[i].v.v, TRUE, <<>>)]

\* key.is.null or key.is.<value>
IsParts(is) ==
  IF is.def
    THEN [i \in 1..Len(is.m) |-> Clause(is.m[i].k, "is", is.m[i].v, FALSE, <<>>)]
    ELSE <<>>

\* key.in.("v1","v2",...) for every non-empty array
WhereinParts(wherein) ==
  IF wherein.def
    THEN LET kept == SelectSeq(wherein.m,
                       LAMBDA e : e.v \in ArrayTokens /\ ListOf(e.v) # <<>>)
         IN [i \in 1..Len(kept) |-> Clause(kept[i].k, "in", "", TRUE, ListOf(kept[i].v))]
    ELSE <<>>

\* parts of one varying condition; its gt .. ilike slots are undefined
BranchParts(condition) ==
  WhereParts(condition.where) \o IsParts(condition.is) \o WhereinParts(condition.wherein)

\* orConditions.join(","), the branches without parts dropped
RECURSIVE JoinBranches(_)
JoinBranches(varying) ==
  IF varying = <<>> THEN <<>>
  ELSE BranchParts(Head(varying)) \o JoinBranches(Tail(varying))

\* query.select("*").is("deleted", null)
OrBaseCalls(table) ==
  <<Call("select", "*", NoVal)>>
    \o (IF table \notin TABLES_WITHOUT_DELETED
          THEN <<Call("is", "deleted", Lit("null"))>> ELSE <<>>)

ApplyOrConditions(table, conditions) ==
  LET varying == IF Len(conditions) > 0 THEN VaryingConditions(conditions) ELSE <<>>
      common == IF Len(conditions) > 0 THEN CommonConditions(conditions) ELSE <<>>
      queryWithCommon == OrBaseCalls(table) \o CommonCalls(common)
      orConditions == JoinBranches(varying)
  IN IF NoVaryingConditions(varying) THEN queryWithCommon
     ELSE IF orConditions # <<>> THEN Append(queryWithCommon, OrCall(orConditions))
     ELSE queryWithCommon

(***************************************************************************)
(* buildSupabaseQuery.  A configuration holds its conditions by reference: *)
(* conditions is a list of indices into the store of condition objects.    *)
(* limit and offset are numbers, or Undefined.                             *)
(***************************************************************************)
Undefined == -1

\* Number.MAX_SAFE_INTEGER is 2^53 - 1; the model's integers are 32 bits wide and
\* every offset of the model is far below either, so the largest integer of the
\* model stands for it
MAX_SAFE_INTEGER == 2147483647

NoOrder == [def |-> FALSE, f |-> "", ascending |-> ""]
OrderBy(f, ascending) == [def |-> TRUE, f |-> f, ascending |-> ascending]

Config(table, conditions, order, limit, offset, filterFn) ==
  [table |-> table, conditions |-> conditions, order |-> order,
   limit |-> limit, offset |-> offset, filterFn |-> filterFn]

\* A plausible slip: the upper end of the range taken as offset + limit.
PaginationEndOffByOne(limit, offset) ==
  IF limit # Undefined /\ limit # 0 /\ offset # Undefined
    THEN <<RangeCall("range", offset, offset + limit)>>
  ELSE IF limit # Undefined /\ limit # 0
    THEN <<RangeCall("limit", limit, 0)>>
  ELSE IF offset # Undefined
    THEN <<RangeCall("range", offset, MAX_SAFE_INTEGER)>>
  ELSE <<>>

\* limit && offset !== undefined / limit / offset !== undefined
Pagination(limit, offset) ==
  IF limit # Undefined /\ limit # 0 /\ offset # Undefined
    THEN <<RangeCall("range", offset, offset + limit - 1)>>
  ELSE IF limit # Undefined /\ limit # 0
    THEN <<RangeCall("limit", limit, 0)>>
  ELSE IF offset # Undefined
    THEN <<RangeCall("range", offset, MAX_SAFE_INTEGER)>>
  ELSE <<>>

\* The calls made on the builder client.from(table) returns, and the store of
\* condition objects afterwards.
BuildSupabaseQuery(config, store) ==
  LET one == ApplyCondition(config.table, store[config.conditions[1]])
      objs == [i \in 1..Len(config.conditions) |-> store[config.conditions[i]]]
      queryWithConditions ==
        IF Len(config.conditions) = 1 THEN one.calls
        ELSE ApplyOrConditions(config.table, objs)
      queryWithOrder ==
        IF config.order.def
          THEN <<Call("order", config.order.f, Lit(config.order.ascending))>> ELSE <<>>
  IN [calls |-> <<Call("from", config.table, NoVal)>> \o queryWithConditions
                  \o queryWithOrder \o Pagination(config.limit, config.offset),
      store |-> IF Len(config.conditions) = 1
                  THEN [store EXCEPT ![config.conditions[1]] = one.condition]
                  ELSE store]

(***************************************************************************)
(* Values that flow through the client side.  A backend row is modelled by *)
(* one numeric column; a value is null (Nothing) or a number (Just(n)).    *)
(* Mapping functions and filter predicates are the caller's; the model     *)
(* has a few concrete ones whose results tell p(f(r)) from p(r) and        *)
(* g(f(r)) from f(g(r)).                                                   *)
(***************************************************************************)
Nothing == <<>>
Just(n) == <<n>>

\* the mapping functions: r => r + 1, r => r * 2, and r => r.nickname, a
\* nullable column that is null in row 2; each gives null for null (r?.x)
Apply(fn, v) ==
  IF v = Nothing THEN Nothing
  ELSE CASE fn = "inc" -> Just(v[1] + 1)
         [] fn = "dbl" -> Just(v[1] * 2)
         [] fn = "nickname" -> IF v[1] = 2 THEN Nothing ELSE v
         [] OTHER -> v

\* A plausible slip: map(fn) composed as mapFn(fn(item)).
RECURSIVE MapFnReversed(_, _)
MapFnReversed(fns, v) ==
  IF fns = <<>> THEN v ELSE Apply(Head(fns), MapFnReversed(Tail(fns), v))

\* mapFn of a MappedQuery: the functions given to map(...), oldest applied first
RECURSIVE MapFn(_, _)
MapFn(fns, v) ==
  IF fns = <<>> THEN v ELSE MapFn(Tail(fns), Apply(Head(fns), v))

\* a predicate given to filter(...): Query.filter tests the row itself,
\* MappedQuery.filter tests predicate(mapFn(item))
Predicate(p, after) == [p |-> p, after |-> after]

\* the predicates: "even" is v => v != null && v % 2 === 0; "big" is
\* v => v.n >= 3, which throws a TypeError when v is null
Holds(p, v) ==
  CASE p = "even" -> IF v # Nothing /\ v[1] % 2 = 0 THEN "true" ELSE "false"
    [] p = "big" -> IF v = Nothing THEN "throws"
                    ELSE IF v[1] >= 3 THEN "true" ELSE "false"
    [] OTHER -> "true"

\* config.filterFn(item): filterFn(item) && predicate(item), oldest first,
\* short-circuit
RECURSIVE FilterFn(_, _)
FilterFn(filterFn, item) ==
  IF filterFn = <<>> THEN "true"
  ELSE LET first == Holds(Head(filterFn).p, MapFn(Head(filterFn).after, item))
       IN IF first = "true" THEN FilterFn(Tail(filterFn), item) ELSE first

(***************************************************************************)
(* What the backend resolves to: { data, error }, or the call throws.      *)
(* data is the rows in backend order (for single(): one row, or no row).   *)
(***************************************************************************)
NoError == [name |-> "", message |-> ""]
PostgrestError == [name |-> "PostgrestError", message |-> "Database error"]
NetworkError == [name |-> "Error", message |-> "fetch failed"]
TypeError == [name |-> "TypeError", message |-> "Cannot read properties of null"]

Resolved(data) == [throws |-> FALSE, error |-> NoError, data |-> data]
ResolvedError(error) == [throws |-> FALSE, error |-> error, data |-> <<>>]
Throws(error) == [throws |-> TRUE, error |-> error, data |-> <<>>]

(***************************************************************************)
(* The containers: TaskOutcome (Ok / Err) around an Option or a List, and  *)
(* what an async function ends with (returns or throws).  An Option is a   *)
(* list of at most one value: Option(null) is None.                        *)
(***************************************************************************)
Outcome(tag, error, items, message) ==
  [tag |-> tag, error |-> error, items |-> items, message |-> message]

Ok(items) == Outcome("Ok", NoError, items, <<>>)
Err(error) == Outcome("Err", error, <<>>, <<>>)
Returned(items) == Outcome("Returned", NoError, items, <<>>)
Thrown(message) == Outcome("Thrown", NoError, <<>>, message)
\* an explicit-error operation whose promise rejects
Rejected(error) == Outcome("Rejected", error, <<>>, <<>>)

Option(v) == IF v = Nothing THEN <<>> ELSE <<v>>

\* what a terminal operation did: its outcome, and the buildSupabaseQuery()
\* calls it made, in order (each obtains a builder from the backend handle,
\* which is then awaited, through single() or as it is)
Built(config, single) == [config |-> config, single |-> single]
Ran(result, built) == [result |-> result, built |-> built]

(***************************************************************************)
(* The terminal operations of a Query, as functions of its configuration,  *)
(* the condition objects and the backend's response to the one builder     *)
(* the operation awaits.                                                   *)
(***************************************************************************)
\* rawResults.filter(config.filterFn): the rows that pass, in order, unless a
\* predicate call throws
FilterRows(filterFn, rows) ==
  [threw |-> \E i \in 1..Len(rows) : FilterFn(filterFn, rows[i]) = "throws",
   items |-> SelectSeq(rows, LAMBDA item : FilterFn(filterFn, item) = "true")]

\* the row, or null, that single() resolved with
SingleRow(response) == IF response.data = <<>> THEN Nothing ELSE Just(response.data[1])

\* A plausible slip: one() without the try / catch around the backend call.
OneOfNoCatch(config, response) ==
  LET result == SingleRow(response)
      filteredResult == FilterFn(config.filterFn, result)
  IN Ran(IF response.throws THEN Rejected(response.error)
         ELSE IF response.error # NoError THEN Err(response.error)
         ELSE IF filteredResult = "throws" THEN Rejected(TypeError)
         ELSE IF filteredResult = "false" THEN Ok(<<>>)
         ELSE Ok(Option(result)),
         <<Built(config, TRUE)>>)

\* A plausible slip: one() that returns the row without applying filterFn.
OneOfUnfiltered(config, response) ==
  Ran(IF response.throws \/ response.error # NoError THEN Err(response.error)
      ELSE Ok(Option(SingleRow(response))),
      <<Built(config, TRUE)>>)

\* one(): buildSupabaseQuery().single(), then the client-side filter
OneOf(config, response) ==
  LET result == SingleRow(response)
      filteredResult == FilterFn(config.filterFn, result)
  IN Ran(IF response.throws THEN Err(response.error)
         ELSE IF response.error # NoError THEN Err(response.error)
         ELSE IF filteredResult = "throws" THEN Err(TypeError)
         ELSE IF filteredResult = "false" THEN Ok(<<>>)
         ELSE Ok(Option(result)),
         <<Built(config, TRUE)>>)

\* many(): await buildSupabaseQuery(), then the client-side filter
ManyOf(config, response) ==
  LET rawResults == [i \in 1..Len(response.data) |-> Just(response.data[i])]
      results == FilterRows(config.filterFn, rawResults)
  IN Ran(IF response.throws THEN Err(response.error)
         ELSE IF response.error # NoError THEN Err(response.error)
         ELSE IF results.threw THEN Err(TypeError)
         ELSE Ok(results.items),
         <<Built(config, FALSE)>>)

\* A plausible slip: first() as a single-row fetch of its own, the first
\* backend row, kept if it passes the filter.
FirstOfBackendHead(config, response) ==
  LET manyResult == ManyOf(config, response)
      head == IF response.data = <<>> THEN <<>> ELSE <<Just(response.data[1])>>
  IN Ran(IF manyResult.result.tag = "Err" THEN Err(manyResult.result.error)
         ELSE Ok(FilterRows(config.filterFn, head).items),
         manyResult.built)

\* A plausible slip: first() that runs the query again when many() fails.
FirstOfRetrying(config, response) ==
  LET manyResult == ManyOf(config, response)
      again == ManyOf(config, response)
      list == manyResult.result.items
  IN IF manyResult.result.tag = "Err"
       THEN Ran(Err(again.result.error), manyResult.built \o again.built)
       ELSE Ran(IF list = <<>> THEN Ok(<<>>) ELSE Ok(Option(Head(list))),
                manyResult.built)

\* first(): QueryBuilder(client, config).many(), then the head of the list
FirstOf(config, response) ==
  LET manyResult == ManyOf(config, response)
      list == manyResult.result.items
  IN Ran(IF manyResult.result.tag = "Err" THEN Err(manyResult.result.error)
         ELSE IF list = <<>> THEN Ok(<<>>)
         ELSE Ok(Option(Head(list))),
         manyResult.built)

\* throw new Error(`Query failed: ${result.error.message}`)
QueryFailed(error) == Thrown(<<"Query failed: ", error.message>>)

\* the unwrapping the throwing variants share: a failure and (where a value
\* is expected) an empty Option throw, anything else is returned
OrThrow(ran, notFound) ==
  Ran(IF ran.result.tag = "Err" THEN QueryFailed(ran.result.error)
      ELSE IF ran.result.items = <<>> /\ notFound # <<>> THEN Thrown(notFound)
      ELSE Returned(ran.result.items),
      ran.built)

\* A plausible slip: the not-found error of oneOrThrow() without the table.
OneOrThrowOfNoTable(config, response) ==
  OrThrow(OneOf(config, response), <<"No record found">>)

\* oneOrThrow(): QueryBuilder(client, config).one(), unwrapped
OneOrThrowOf(config, response) ==
  OrThrow(OneOf(config, response), <<"No record found in ", config.table>>)

\* manyOrThrow(): QueryBuilder(client, config).many(), unwrapped; an empty list
\* is returned
ManyOrThrowOf(config, response) == OrThrow(ManyOf(config, response), <<>>)

\* firstOrThrow(): QueryBuilder(client, config).first(), unwrapped
FirstOrThrowOf(config, response) ==
  OrThrow(FirstOf(config, response), <<"No records found in ", config.table>>)

(***************************************************************************)
(* createMappedQuery: a MappedQuery is { sourceQuery, mapFn }.             *)
(***************************************************************************)
MappedQuery(sourceQuery, mapFn) == [sourceQuery |-> sourceQuery, mapFn |-> mapFn]

\* one() and first(): the source's failure and its empty Option as they are,
\* otherwise Ok(Option(mapFn(item)))
MappedOption(mq, ran) ==
  Ran(IF ran.result.tag = "Err" THEN Err(ran.result.error)
      ELSE IF ran.result.items = <<>> THEN Ok(<<>>)
      ELSE Ok(Option(MapFn(mq.mapFn, ran.result.items[1]))),
      ran.built)

MappedOneOf(mq, response) == MappedOption(mq, OneOf(mq.sourceQuery, response))

\* many(): Ok(items.map(mapFn))
MappedManyOf(mq, response) ==
  LET itemsResult == ManyOf(mq.sourceQuery, response)
      items == itemsResult.result.items
  IN Ran(IF itemsResult.result.tag = "Err" THEN Err(itemsResult.result.error)
         ELSE Ok([i \in 1..Len(items) |-> MapFn(mq.mapFn, items[i])]),
         itemsResult.built)

MappedFirstOf(mq, response) == MappedOption(mq, FirstOf(mq.sourceQuery, response))

\* oneOrThrow(): createMappedQuery(sourceQuery, mapFn).one(), unwrapped
MappedOneOrThrowOf(mq, response) ==
  OrThrow(MappedOneOf(mq, response), <<"No record found">>)

\* manyOrThrow(): createMappedQuery(sourceQuery, mapFn).many(), unwrapped
MappedManyOrThrowOf(mq, response) == OrThrow(MappedManyOf(mq, response), <<>>)

\* firstOrThrow(): createMappedQuery(sourceQuery, mapFn).first(), unwrapped
MappedFirstOrThrowOf(mq, response) ==
  OrThrow(MappedFirstOf(mq, response), <<"No records found">>)

(***************************************************************************)
(* The program's state.                                                    *)
(*   store    the condition objects ever created, by reference (index)     *)
(*   supplied the same objects as the caller handed them over (history)    *)
(*   queries  the configurations of the Query values created so far        *)
(*   mapped   the MappedQuery values created so far                        *)
(*   hist     per Query, the call sequence of each of its executions       *)
(*   outcome  the terminal operation that ended last: what it was called   *)
(*            on, the backend's response and what the caller got           *)
(*   steps    per Query, the call that made it: the operation, the count   *)
(*            handed to limit / offset, the Query it was called on         *)
(*   entity   the configuration the Entity facade was created with         *)
(*   mutations the mutation values the facade returned, each one promise   *)
(*   requests the insert / update / upsert requests the backend received   *)
(***************************************************************************)
VARIABLES store, supplied, queries, mapped, hist, outcome,
          steps, entity, mutations, requests

vars == <<store, supplied, queries, mapped, hist, outcome,
          steps, entity, mutations, requests>>

\* what the query engine leaves alone: the facade's side of the state
facade == <<entity, mutations, requests>>

\* how a Query value was made; count is Undefined but for limit and offset
Step(op, count, from) == [op |-> op, count |-> count, from |-> from]

\* no Entity facade was created: the caller uses query(...) directly
NoEntity == [made |-> FALSE, softDelete |-> FALSE, partitionKey |-> None]

\* no terminal operation has ended yet
NoOutcome ==
  [op |-> "", kind |-> "", subject |-> 0, response |-> Resolved(<<>>),
   result |-> Ok(<<>>), sent |-> <<>>]

Fields == {"a", "b"}
Tables == {"users"}

\* where objects over the fields, in both key orders
FieldMaps(vals) ==
  {<<>>} \cup {<<Entry(k, v)>> : k \in Fields, v \in vals}
         \cup {<<Entry("a", v), Entry("b", w)>> : v \in vals, w \in vals}
         \cup {<<Entry("b", v), Entry("a", w)>> : v \in vals, w \in vals}

\* where objects over the fields, keys written in alphabetical order
SortedMaps(vals) ==
  {<<>>} \cup {<<Entry(k, v)>> : k \in Fields, v \in vals}
         \cup {<<Entry("a", v), Entry("b", w)>> : v \in vals, w \in vals}

LitVals == {Lit("null"), Lit("x"), Lit("y")}

\* operator objects a caller writes inside where; each literal is its own object
OpObjs ==
  {Obj(1, <<Entry("gt", "x")>>), Obj(2, <<Entry("gte", "x")>>),
   Obj(3, <<Entry("lt", "x")>>), Obj(4, <<Entry("lte", "x")>>),
   Obj(5, <<Entry("neq", "x")>>), Obj(6, <<Entry("like", "x")>>),
   Obj(7, <<Entry("ilike", "x")>>), Obj(8, <<Entry("gt", "0")>>),
   Obj(9, <<Entry("in", "[x,y]")>>), Obj(10, <<Entry("is", "null")>>),
   Obj(11, <<Entry("is", "true")>>),
   Obj(12, <<Entry("gte", "x"), Entry("lte", "y")>>)}

\* where.gte = { a: "y" } : an operator map written at the top level of where
TopLevelMaps == {<<>>, <<Entry("gte", Obj(20, <<Entry("a", "y")>>))>>}

\* the arguments of createQuery for a query that stays single-branch
SingleWheres == {top \o m : top \in TopLevelMaps, m \in FieldMaps(LitVals \cup OpObjs)}
SingleIs == {None, Some(<<>>), Some(<<Entry("b", "null")>>)}
SingleWherein == {None, Some(<<Entry("b", "[x,y]")>>)}

\* the arguments of createQuery and of or(...) for a multi-branch query
MultiWheres == SortedMaps(LitVals)
MultiIs == {None, Some(<<Entry("b", "null")>>)}
MultiWherein == {None, Some(<<Entry("a", "[x,y]")>>)}

\* createQuery: conditions: [{ where, is, wherein }]
CreateCondition(where, is, wherein) == Condition(where, is, wherein)

\* or(where, is): { where, is }
OrCondition(where, is) == Condition(where, is, None)

\* the branches or(...) adds to a multi-branch query
OrBranches == {OrCondition(w, i) : w \in MultiWheres, i \in MultiIs}

Executions == Len(hist[1]) + (IF Len(hist) > 1 THEN Len(hist[2]) ELSE 0)
                + (IF Len(hist) > 2 THEN Len(hist[3]) ELSE 0)

\* a terminal operation on query q: buildSupabaseQuery() runs, the call
\* sequence goes to the backend, and the condition objects keep what
\* applyCondition wrote into them
\* (what the backend answers has no part in what is compiled and sent; the
\* operations with their answers and outcomes are the actions of SpecExec)
Terminal(q) ==
  /\ Executions < MaxExec
  /\ LET r == BuildSupabaseQuery(queries[q], store)
     IN /\ store' = r.store
        /\ hist' = [hist EXCEPT ![q] = Append(@, r.calls)]
  /\ UNCHANGED <<supplied, queries, mapped, outcome, steps, facade>>

\* one Query, created by createQuery(...) and for the multi-branch lists by
\* createQuery(...).or(...)..., and executed repeatedly
InitCompile ==
  /\ \/ \E w \in SingleWheres, i \in SingleIs, n \in SingleWherein :
          store = <<CreateCondition(w, i, n)>>
     \/ \E k \in 1..(MaxBranches - 1) :
          \E w \in MultiWheres, i \in MultiIs, n \in MultiWherein :
            \E rest \in [1..k -> OrBranches] :
              store = <<CreateCondition(w, i, n)>> \o rest
  /\ supplied = store
  /\ queries = <<Config("users", [i \in 1..Len(store) |-> i], NoOrder,
                        Undefined, Undefined, <<>>)>>
  /\ mapped = <<>>
  /\ hist = << <<>> >>
  /\ outcome = NoOutcome
  /\ steps = <<Step("createQuery", Undefined, 0)>>
  /\ entity = NoEntity
  /\ mutations = <<>>
  /\ requests = <<>>

NextCompile == \E q \in 1..Len(queries) : Terminal(q)

SpecCompile == InitCompile /\ [][NextCompile]_vars

(***************************************************************************)
(* The chain operations of QueryBuilder.  Each builds a new configuration  *)
(* from a spread of the old one; a new condition list is a new array that  *)
(* holds the old condition objects (by reference) and one new object.      *)
(* An operation yields the Query values and condition objects that exist   *)
(* after it.                                                               *)
(***************************************************************************)
Created(qs, st) == [queries |-> qs, store |-> st]

\* A plausible slip: config.conditions.push(...), which also lengthens the
\* condition list of the Query the operation was called on.
WithConditionInPlace(qs, st, q, condition) ==
  LET conditions == Append(qs[q].conditions, Len(st) + 1)
  IN Created(Append([qs EXCEPT ![q].conditions = conditions],
                    [qs[q] EXCEPT !.conditions = conditions]),
             Append(st, condition))

\* QueryBuilder(client, { ...config, conditions: [...config.conditions, condition] })
WithCondition(qs, st, q, condition) ==
  Created(Append(qs, [qs[q] EXCEPT !.conditions = Append(@, Len(st) + 1)]),
          Append(st, condition))

\* or(where, is)
OrChain(qs, st, q, where, is) == WithCondition(qs, st, q, OrCondition(where, is))

\* whereId(id): [...config.conditions, { where: { id } }]
WhereIdChain(qs, st, q, id) ==
  WithCondition(qs, st, q, Condition(<<Entry("id", Lit(id))>>, None, None))

\* orWhereId(id): QueryBuilder(client, config).or({ id })
OrWhereIdChain(qs, st, q, id) == OrChain(qs, st, q, <<Entry("id", Lit(id))>>, None)

\* filter(predicate): filterFn is the conjunction of the predicates, oldest first
FilterChain(qs, q, predicate) ==
  Append(qs, [qs[q] EXCEPT !.filterFn = Append(@, predicate)])

\* A plausible slip: limit(count) adding the count to a limit already set.
LimitChainAdding(qs, q, count) ==
  Append(qs, [qs[q] EXCEPT !.limit = IF @ = Undefined THEN count ELSE @ + count])

\* limit(count)
LimitChain(qs, q, count) == Append(qs, [qs[q] EXCEPT !.limit = count])

\* offset(count)
OffsetChain(qs, q, count) == Append(qs, [qs[q] EXCEPT !.offset = count])

\* map(fn): createMappedQuery(QueryBuilder(client, config), fn)
MapChain(ms, qs, q, fn) == Append(ms, [sourceQuery |-> qs[q], mapFn |-> <<fn>>])

(***************************************************************************)
(* The program: a caller creates one Query, derives others from it by      *)
(* chaining, and runs terminal operations on any of them in any order.     *)
(***************************************************************************)
ProgramWheres ==
  {<<>>,
   <<Entry("a", Lit("x"))>>,
   <<Entry("a", Obj(9, <<Entry("in", "[x,y]")>>))>>,
   <<Entry("a", Lit("x")), Entry("b", Obj(10, <<Entry("is", "null")>>))>>}
ProgramIs == {None, Some(<<Entry("b", "true")>>)}
ProgramWherein == {None}
ProgramOrders == {NoOrder, OrderBy("a", "true")}
OrWheres == {<<Entry("a", Lit("y"))>>, <<Entry("a", Lit("x")), Entry("b", Lit("y"))>>}
OrIs == {None, Some(<<Entry("b", "null")>>)}
Ids == {"id1"}
Counts == {0, 2}
Predicates == {Predicate("even", <<>>)}
MapFns == {"inc"}

\* createQuery(client, table, where, is, wherein, order)
Init ==
  /\ \E w \in ProgramWheres, i \in ProgramIs, n \in ProgramWherein :
       store = <<CreateCondition(w, i, n)>>
  /\ supplied = store
  /\ \E t \in Tables, o \in ProgramOrders :
       queries = <<Config(t, <<1>>, o, Undefined, Undefined, <<>>)>>
  /\ mapped = <<>>
  /\ hist = << <<>> >>
  /\ outcome = NoOutcome
  /\ steps = <<Step("createQuery", Undefined, 0)>>
  /\ entity = NoEntity
  /\ mutations = <<>>
  /\ requests = <<>>

CanChain(q) ==
  /\ q \in 1..Len(queries)
  /\ Len(queries) + Len(mapped) < MaxQueries

NewQueries(r, step) ==
  /\ queries' = r.queries
  /\ steps' = Append(steps, step)
  /\ store' = r.store
  /\ supplied' = supplied \o SubSeq(r.store, Len(store) + 1, Len(r.store))
  /\ hist' = Append(hist, <<>>)
  /\ UNCHANGED <<mapped, outcome, facade>>

Or(q) ==
  /\ CanChain(q)
  /\ Len(queries[q].conditions) < MaxBranches
  /\ \E w \in OrWheres, i \in OrIs : NewQueries(OrChain(queries, store, q, w, i), Step("or", Undefined, q))

WhereId(q) ==
  /\ CanChain(q)
  /\ Len(queries[q].conditions) < MaxBranches
  /\ \E id \in Ids : NewQueries(WhereIdChain(queries, store, q, id),
                                Step("whereId", Undefined, q))

OrWhereId(q) ==
  /\ CanChain(q)
  /\ Len(queries[q].conditions) < MaxBranches
  /\ \E id \in Ids : NewQueries(OrWhereIdChain(queries, store, q, id),
                                Step("orWhereId", Undefined, q))

Filter(q) ==
  /\ CanChain(q)
  /\ \E p \in Predicates : NewQueries(Created(FilterChain(queries, q, p), store),
                                    Step("filter", Undefined, q))

Limit(q) ==
  /\ CanChain(q)
  /\ \E n \in Counts : NewQueries(Created(LimitChain(queries, q, n), store),
                              Step("limit", n, q))

Offset(q) ==
  /\ CanChain(q)
  /\ \E n \in Counts : NewQueries(Created(OffsetChain(queries, q, n), store),
                              Step("offset", n, q))

Map(q) ==
  /\ CanChain(q)
  /\ \E fn \in MapFns : mapped' = MapChain(mapped, queries, q, fn)
  /\ UNCHANGED <<store, supplied, queries, hist, outcome, steps, facade>>

Next ==
  \/ \E q \in 1..Len(queries) : Or(q)
  \/ \E q \in 1..Len(queries) : WhereId(q)
  \/ \E q \in 1..Len(queries) : OrWhereId(q)
  \/ \E q \in 1..Len(queries) : Filter(q)
  \/ \E q \in 1..Len(queries) : Limit(q)
  \/ \E q \in 1..Len(queries) : Offset(q)
  \/ \E q \in 1..Len(queries) : Map(q)
  \/ \E q \in 1..Len(queries) : Terminal(q)

Spec == Init /\ [][Next]_vars

(***************************************************************************)
(* The chain operations of a MappedQuery.                                  *)
(***************************************************************************)
\* map(fn): createMappedQuery(sourceQuery, item => fn(mapFn(item)))
MappedMapChain(ms, m, fn) ==
  Append(ms, MappedQuery(ms[m].sourceQuery, Append(ms[m].mapFn, fn)))

\* A plausible slip: filter(predicate) handing the predicate to the source
\* Query as it is, to be tested on the unmapped row.
MappedFilterChainOnRow(ms, m, predicate) ==
  Append(ms, MappedQuery(FilterChain(<<ms[m].sourceQuery>>, 1, Predicate(predicate, <<>>))[2],
                         ms[m].mapFn))

\* filter(predicate): sourceQuery.filter(item => predicate(mapFn(item))), same mapFn
MappedFilterChain(ms, m, predicate) ==
  Append(ms, MappedQuery(FilterChain(<<ms[m].sourceQuery>>, 1,
                                     Predicate(predicate, ms[m].mapFn))[2],
                         ms[m].mapFn))

(***************************************************************************)
(* Execution: a caller builds one pipeline, createQuery(...) followed by   *)
(* filter / map calls, and then runs terminal operations on the value it   *)
(* holds (the latest one); the backend answers each builder with some      *)
(* response.                                                               *)
(***************************************************************************)
ExecWheres == {<<Entry("a", Lit("x"))>>}
ExecPredicates == {"even", "big"}
ExecMapFns == {"inc", "dbl", "nickname"}

\* the rows a response can carry, in backend order
RowLists == {<<>>, <<2>>, <<3, 2>>, <<2, 3, 1>>}

SingleResponses ==
  {Resolved(<<>>), Resolved(<<2>>), Resolved(<<3>>),
   ResolvedError(PostgrestError), Throws(NetworkError)}

ManyResponses ==
  {Resolved(rows) : rows \in RowLists} \cup {ResolvedError(PostgrestError), Throws(NetworkError)}

InitExec ==
  /\ \E w \in ExecWheres : store = <<CreateCondition(w, None, None)>>
  /\ supplied = store
  /\ \E t \in Tables : queries = <<Config(t, <<1>>, NoOrder, Undefined, Undefined, <<>>)>>
  /\ mapped = <<>>
  /\ hist = << <<>> >>
  /\ outcome = NoOutcome
  /\ steps = <<Step("createQuery", Undefined, 0)>>
  /\ entity = NoEntity
  /\ mutations = <<>>
  /\ requests = <<>>

\* the value the caller holds is Query q / MappedQuery m
HoldsQuery(q) == q = Len(queries) /\ mapped = <<>>
HoldsMapped(m) == m = Len(mapped) /\ mapped # <<>>

\* the pipeline is still being built
Building == outcome = NoOutcome

\* query.filter(predicate)
ThenFilter(q) ==
  /\ Building
  /\ HoldsQuery(q)
  /\ Len(queries) < MaxQueries
  /\ \E p \in ExecPredicates : queries' = FilterChain(queries, q, Predicate(p, <<>>))
  /\ hist' = Append(hist, <<>>)
  /\ steps' = Append(steps, Step("filter", Undefined, q))
  /\ UNCHANGED <<store, supplied, mapped, outcome, facade>>

\* query.map(fn)
ThenMap(q) ==
  /\ Building
  /\ HoldsQuery(q)
  /\ \E fn \in ExecMapFns : mapped' = MapChain(mapped, queries, q, fn)
  /\ UNCHANGED <<store, supplied, queries, hist, outcome, steps, facade>>

\* mappedQuery.map(fn)
MappedMap(m) ==
  /\ Building
  /\ HoldsMapped(m)
  /\ Len(mapped) < MaxMapped
  /\ \E fn \in ExecMapFns : mapped' = MappedMapChain(mapped, m, fn)
  /\ UNCHANGED <<store, supplied, queries, hist, outcome, steps, facade>>

\* mappedQuery.filter(predicate)
MappedFilter(m) ==
  /\ Building
  /\ HoldsMapped(m)
  /\ Len(mapped) < MaxMapped
  /\ \E p \in ExecPredicates : mapped' = MappedFilterChain(mapped, m, p)
  /\ UNCHANGED <<store, supplied, queries, hist, outcome, steps, facade>>

\* the buildSupabaseQuery() calls of one terminal operation, run in order: the
\* call sequences that reach the backend and the condition objects afterwards
RECURSIVE Send(_, _)
Send(built, st) ==
  IF built = <<>> THEN [sent |-> <<>>, store |-> st]
  ELSE LET build == BuildSupabaseQuery(Head(built).config, st)
           rest == Send(Tail(built), build.store)
       IN [sent |-> <<build.calls \o (IF Head(built).single
                                        THEN <<Call("single", "", NoVal)>> ELSE <<>>)>>
                      \o rest.sent,
           store |-> rest.store]

\* a terminal operation ends: its outcome reaches the caller, the builders it
\* obtained were sent, the condition objects keep what the compile wrote
Finish(op, kind, subject, response, ran) ==
  /\ kind = "query" => Len(hist[subject]) < MaxExec
  /\ \E sending \in {Send(ran.built, store)} :
       /\ outcome' = [op |-> op, kind |-> kind, subject |-> subject,
                      response |-> response, result |-> ran.result, sent |-> sending.sent]
       /\ store' = sending.store
       /\ hist' = IF kind = "query" THEN [hist EXCEPT ![subject] = @ \o sending.sent]
                  ELSE hist
  /\ UNCHANGED <<supplied, queries, mapped, steps, facade>>

One(q) ==
  /\ HoldsQuery(q)
  /\ \E r \in SingleResponses :
       \E ran \in {OneOf(queries[q], r)} : Finish("one", "query", q, r, ran)

Many(q) ==
  /\ HoldsQuery(q)
  /\ \E r \in ManyResponses :
       \E ran \in {ManyOf(queries[q], r)} : Finish("many", "query", q, r, ran)

First(q) ==
  /\ HoldsQuery(q)
  /\ \E r \in ManyResponses :
       \E ran \in {FirstOf(queries[q], r)} : Finish("first", "query", q, r, ran)

OneOrThrow(q) ==
  /\ HoldsQuery(q)
  /\ \E r \in SingleResponses :
       \E ran \in {OneOrThrowOf(queries[q], r)} : Finish("oneOrThrow", "query", q, r, ran)

ManyOrThrow(q) ==
  /\ HoldsQuery(q)
  /\ \E r \in ManyResponses :
       \E ran \in {ManyOrThrowOf(queries[q], r)} : Finish("manyOrThrow", "query", q, r, ran)

FirstOrThrow(q) ==
  /\ HoldsQuery(q)
  /\ \E r \in ManyResponses :
       \E ran \in {FirstOrThrowOf(queries[q], r)} : Finish("firstOrThrow", "query", q, r, ran)

MappedOne(m) ==
  /\ HoldsMapped(m)
  /\ \E r \in SingleResponses :
       \E ran \in {MappedOneOf(mapped[m], r)} : Finish("one", "mapped", m, r, ran)

MappedMany(m) ==
  /\ HoldsMapped(m)
  /\ \E r \in ManyResponses :
       \E ran \in {MappedManyOf(mapped[m], r)} : Finish("many", "mapped", m, r, ran)

MappedFirst(m) ==
  /\ HoldsMapped(m)
  /\ \E r \in ManyResponses :
       \E ran \in {MappedFirstOf(mapped[m], r)} : Finish("first", "mapped", m, r, ran)

MappedOneOrThrow(m) ==
  /\ HoldsMapped(m)
  /\ \E r \in SingleResponses :
       \E ran \in {MappedOneOrThrowOf(mapped[m], r)} : Finish("oneOrThrow", "mapped", m, r, ran)

MappedManyOrThrow(m) ==
  /\ HoldsMapped(m)
  /\ \E r \in ManyResponses :
       \E ran \in {MappedManyOrThrowOf(mapped[m], r)} : Finish("manyOrThrow", "mapped", m, r, ran)

MappedFirstOrThrow(m) ==
  /\ HoldsMapped(m)
  /\ \E r \in ManyResponses :
       \E ran \in {MappedFirstOrThrowOf(mapped[m], r)} : Finish("firstOrThrow", "mapped", m, r, ran)

NextExec ==
  \/ \E q \in 1..Len(queries) : ThenFilter(q)
  \/ \E q \in 1..Len(queries) : ThenMap(q)
  \/ \E m \in 1..Len(mapped) : MappedMap(m)
  \/ \E m \in 1..Len(mapped) : MappedFilter(m)
  \/ \E q \in 1..Len(queries) : One(q)
  \/ \E q \in 1..Len(queries) : Many(q)
  \/ \E q \in 1..Len(queries) : First(q)
  \/ \E q \in 1..Len(queries) : OneOrThrow(q)
  \/ \E q \in 1..Len(queries) : ManyOrThrow(q)
  \/ \E q \in 1..Len(queries) : FirstOrThrow(q)
  \/ \E m \in 1..Len(mapped) : MappedOne(m)
  \/ \E m \in 1..Len(mapped) : MappedMany(m)
  \/ \E m \in 1..Len(mapped) : MappedFirst(m)
  \/ \E m \in 1..Len(mapped) : MappedOneOrThrow(m)
  \/ \E m \in 1..Len(mapped) : MappedManyOrThrow(m)
  \/ \E m \in 1..Len(mapped) : MappedFirstOrThrow(m)

SpecExec == InitExec /\ [][NextExec]_vars

(***************************************************************************)
(* Pagination: a caller builds one pipeline, createQuery(...) followed by  *)
(* limit / offset calls, and runs many() on the Query values of the        *)
(* pipeline; the backend answers with the rows the pagination call of the  *)
(* compiled query selects from the rows that match.                        *)
(***************************************************************************)
\* the rows of the table that match the pipeline's conditions, in backend order
TableRows == <<1, 2, 3>>

\* the backend's limit(n): the first n rows; range(from, to): the rows at
\* positions from .. to, counted from 0, both ends included
Page(calls, rows) ==
  LET paging == SelectSeq(calls, LAMBDA c : c.op \in {"limit", "range"})
      to == IF paging[1].hi >= Len(rows) THEN Len(rows) ELSE paging[1].hi + 1
  IN IF paging = <<>> THEN rows
     ELSE IF paging[1].op = "limit"
       THEN SubSeq(rows, 1, IF paging[1].lo >= Len(rows) THEN Len(rows) ELSE paging[1].lo)
     ELSE SubSeq(rows, paging[1].lo + 1, to)

\* the backend's answer to a compiled query
Served(config, st) == Resolved(Page(BuildSupabaseQuery(config, st).calls, TableRows))

InitPage ==
  /\ \E w \in ExecWheres : store = <<CreateCondition(w, None, None)>>
  /\ supplied = store
  /\ \E t \in Tables, o \in ProgramOrders :
       queries = <<Config(t, <<1>>, o, Undefined, Undefined, <<>>)>>
  /\ mapped = <<>>
  /\ hist = << <<>> >>
  /\ outcome = NoOutcome
  /\ steps = <<Step("createQuery", Undefined, 0)>>
  /\ entity = NoEntity
  /\ mutations = <<>>
  /\ requests = <<>>

\* the terminal operations run so far, over every Query
RECURSIVE ExecutionsOf(_)
ExecutionsOf(h) == IF h = <<>> THEN 0 ELSE Len(Head(h)) + ExecutionsOf(Tail(h))

\* query.limit(count)
ThenLimit(q) ==
  /\ Building
  /\ HoldsQuery(q)
  /\ Len(queries) <= MaxPaging
  /\ \E n \in Counts :
       /\ queries' = LimitChain(queries, q, n)
       /\ steps' = Append(steps, Step("limit", n, q))
  /\ hist' = Append(hist, <<>>)
  /\ UNCHANGED <<store, supplied, mapped, outcome, facade>>

\* query.offset(count)
ThenOffset(q) ==
  /\ Building
  /\ HoldsQuery(q)
  /\ Len(queries) <= MaxPaging
  /\ \E n \in Counts :
       /\ queries' = OffsetChain(queries, q, n)
       /\ steps' = Append(steps, Step("offset", n, q))
  /\ hist' = Append(hist, <<>>)
  /\ UNCHANGED <<store, supplied, mapped, outcome, facade>>

\* many() on any Query of the pipeline
PagedMany(q) ==
  /\ ExecutionsOf(hist) < MaxExec
  /\ \E r \in {Served(queries[q], store)} :
       \E ran \in {ManyOf(queries[q], r)} : Finish("many", "query", q, r, ran)

NextPage ==
  \/ \E q \in 1..Len(queries) : ThenLimit(q)
  \/ \E q \in 1..Len(queries) : ThenOffset(q)
  \/ \E q \in 1..Len(queries) : PagedMany(q)

SpecPage == InitPage /\ [][NextPage]_vars

(***************************************************************************)
(* The Entity facade: Entity(client, name, config) and the Query values    *)
(* its getItem / getItems return.  The facade hands the soft-delete mode   *)
(* of its configuration to createQuery as a seventh argument; createQuery  *)
(* takes six and builds the configuration from table, conditions and       *)
(* order, so the Query is the one query(...) would have made.              *)
(***************************************************************************)
EntityConfig(softDelete, partitionKey) ==
  [made |-> TRUE, softDelete |-> softDelete, partitionKey |-> partitionKey]

\* const softDeleteMode = config.softDelete ? "exclude" : "include"
SoftDeleteMode(config) == IF config.softDelete THEN "exclude" ELSE "include"

\* { ...a, ...b }: the keys of b overwrite, new keys go last
RECURSIVE Spread(_, _)
Spread(a, b) == IF b = <<>> THEN a ELSE Spread(Put(a, Head(b).k, Head(b).v), Tail(b))

\* config.partitionKey ? { ...config.partitionKey, ...where, id } : { ...where, id }
ItemWhere(config, where, id) ==
  Spread(Spread(IF config.partitionKey.def THEN config.partitionKey.m ELSE <<>>, where),
         <<Entry("id", Lit(id))>>)

\* config.partitionKey ? { ...config.partitionKey, ...where } : where
ItemsWhere(config, where) ==
  IF config.partitionKey.def THEN Spread(config.partitionKey.m, where) ELSE where

\* createQuery(client, name, where, is, wherein, order, { mode, appliedByDefault })
EntityQuery(qs, st, name, where, is, wherein, order) ==
  Created(Append(qs, Config(name, <<Len(st) + 1>>, order, Undefined, Undefined, <<>>)),
          Append(st, CreateCondition(where, is, wherein)))

\* the facade's configurations: the partition field is a, the tenant's value x
PartitionKeys == {None, Some(<<Entry("a", Lit("x"))>>)}
EntityWheres == {<<>>, <<Entry("b", Lit("y"))>>, <<Entry("a", Lit("y"))>>}
EntityIs == {None, Some(<<Entry("b", "null")>>)}

\* Entity(client, name, config)
InitEntity ==
  /\ \E d \in BOOLEAN, p \in PartitionKeys : entity = EntityConfig(d, p)
  /\ store = <<>>
  /\ supplied = <<>>
  /\ queries = <<>>
  /\ mapped = <<>>
  /\ hist = <<>>
  /\ outcome = NoOutcome
  /\ steps = <<>>
  /\ mutations = <<>>
  /\ requests = <<>>

\* entity.getItem({ id, where, is })
GetItem ==
  /\ Len(queries) < MaxQueries
  /\ \E t \in Tables, id \in Ids, w \in EntityWheres, i \in EntityIs :
       NewQueries(EntityQuery(queries, store, t, ItemWhere(entity, w, id), i, None, NoOrder),
                  Step("getItem", Undefined, 0))

\* entity.getItems({ where, is, wherein, order })
GetItems ==
  /\ Len(queries) < MaxQueries
  /\ \E t \in Tables, w \in EntityWheres, i \in EntityIs, o \in ProgramOrders :
       NewQueries(EntityQuery(queries, store, t, ItemsWhere(entity, w), i, None, o),
                  Step("getItems", Undefined, 0))

\* the Query values are chained and executed as any other
NextEntity ==
  \/ GetItem
  \/ GetItems
  \/ \E q \in 1..Len(queries) : Or(q)
  \/ \E q \in 1..Len(queries) : Terminal(q)

SpecEntity == InitEntity /\ [][NextEntity]_vars

(***************************************************************************)
(* Mutations through the Entity facade.  addItems, updateItem and          *)
(* updateItems call addEntities, updateEntity and updateEntities, whose    *)
(* async body runs at the call: it builds the insert / update / upsert     *)
(* builder and awaits it, which sends the request.  The facade wraps the   *)
(* promise of that one call; the methods it adds only read the promise.    *)
(***************************************************************************)
\* the promise of a mutation before the backend has answered
Pending == Outcome("Pending", NoError, <<>>, <<>>)

\* a request the backend received, and the mutation whose call sent it
Request(by, calls) == [by |-> by, calls |-> calls]

\* the value a facade method returns: the promise of the call it made
Mutation(method, single, builder) ==
  [method |-> method, single |-> single, builder |-> builder, settled |-> FALSE,
   response |-> Resolved(<<>>), promise |-> Pending, invoked |-> 0]

\* wherein ? entries.foldLeft(query)(query.in(column, values)) : query, then
\* the same for is
InAndIsCalls(is, wherein) ==
  (IF wherein.def THEN CallsOf("in", wherein.m) ELSE <<>>)
    \o (IF is.def THEN CallsOf("is", is.m) ELSE <<>>)

\* client.from(table).insert(entities).select()
addEntities(table, entities) ==
  <<Call("from", table, NoVal), Call("insert", "", Lit(entities)), Call("select", "", NoVal)>>

\* client.from(table).update(entities).match(where) ... .select().single()
updateEntity(table, entities, where, is, wherein) ==
  <<Call("from", table, NoVal), Call("update", "", Lit(entities)), MatchCall(where)>>
    \o InAndIsCalls(is, wherein)
    \o <<Call("select", "", NoVal), Call("single", "", NoVal)>>

\* client.from(table).upsert(entities, { onConflict }).match(where ?? {}) ... .select()
updateEntities(table, entities, identity, where, is, wherein) ==
  <<Call("from", table, NoVal), Call("upsert", identity, Lit(entities)),
    MatchCall(IF where.def THEN where.m ELSE <<>>)>>
    \o InAndIsCalls(is, wherein)
    \o <<Call("select", "", NoVal)>>

\* what the promise of addEntities / updateEntities resolves with
ListOutcome(response) ==
  IF response.throws THEN Err(response.error)
  ELSE IF response.error # NoError THEN Err(response.error)
  ELSE Ok(response.data)

\* what the promise of updateEntity resolves with: Ok(data), the row itself
RowOutcome(response) ==
  IF response.throws THEN Err(response.error)
  ELSE IF response.error # NoError THEN Err(response.error)
  ELSE Ok(SingleRow(response))

\* taskResult.getOrThrow()
getOrThrow(taskResult) ==
  IF taskResult.tag = "Err" THEN Thrown(<<taskResult.error.message>>)
  ELSE Returned(taskResult.items)

\* outcome.map((value) => Option(value))
MapOption(taskResult) ==
  IF taskResult.tag = "Err" THEN taskResult ELSE Ok(Option(taskResult.items))

MultiMethods == {"many", "manyOrThrow", "execute", "executeOrThrow"}
SingleMethods == {"one", "oneOrThrow", "execute", "executeOrThrow"}

\* A plausible slip: execute() and many() that run the mutation again.
MultiMutationQueryRerun(mutation, method) ==
  Ran(IF method \in {"many", "execute"} THEN mutation.promise
      ELSE getOrThrow(mutation.promise),
      IF method \in {"many", "execute"} THEN <<mutation.builder>> ELSE <<>>)

\* MultiMutationQuery(promise): the four methods, each reading the promise
MultiMutationQuery(mutation, method) ==
  Ran(IF method \in {"many", "execute"} THEN mutation.promise
      ELSE getOrThrow(mutation.promise),
      <<>>)

\* SingleMutationQuery(promise): the four methods, each reading the promise
SingleMutationQuery(mutation, method) ==
  Ran(IF method \in {"one", "execute"} THEN MapOption(mutation.promise)
      ELSE IF method = "oneOrThrow" THEN getOrThrow(mutation.promise)
      ELSE LET value == getOrThrow(mutation.promise)
           IN IF value.tag = "Thrown" THEN value ELSE Returned(Option(value.items)),
      <<>>)

\* the payloads, identifiers and conditions of the mutations
ItemLists == {"[x,y]"}
UpdateWheres == {None, Some(<<Entry("b", Lit("y"))>>)}
MutationListResponses ==
  {Resolved(<<1, 2>>), ResolvedError(PostgrestError), Throws(NetworkError)}
MutationRowResponses == {Resolved(<<2>>), Resolved(<<>>), ResolvedError(PostgrestError)}

\* Entity(client, name, config), no mutation made yet
InitMutation ==
  /\ entity = EntityConfig(FALSE, None)
  /\ store = <<>>
  /\ supplied = <<>>
  /\ queries = <<>>
  /\ mapped = <<>>
  /\ hist = <<>>
  /\ outcome = NoOutcome
  /\ steps = <<>>
  /\ mutations = <<>>
  /\ requests = <<>>

\* a facade method returns: the builder was built and awaited, so the
\* request is with the backend
Mutate(method, single, builder) ==
  /\ Len(mutations) < MaxMutations
  /\ mutations' = Append(mutations, Mutation(method, single, builder))
  /\ requests' = Append(requests, Request(Len(mutations) + 1, builder))
  /\ UNCHANGED <<store, supplied, queries, mapped, hist, outcome, steps, entity>>

\* entity.addItems({ items })
AddItems ==
  \E t \in Tables, items \in ItemLists : Mutate("addItems", FALSE, addEntities(t, items))

\* entity.updateItem({ id, item, where, is, wherein })
UpdateItem ==
  \E t \in Tables, id \in Ids, w \in UpdateWheres :
    Mutate("updateItem", TRUE,
           updateEntity(t, "{x}", Spread(IF w.def THEN w.m ELSE <<>>, <<Entry("id", Lit(id))>>),
                        None, None))

\* entity.updateItems({ items, identity = "id", where, is, wherein })
UpdateItems ==
  \E t \in Tables, items \in ItemLists :
    Mutate("updateItems", FALSE, updateEntities(t, items, "id", None, None, None))

\* the backend answers the request of mutation m: its promise settles
Settle(m) ==
  /\ ~mutations[m].settled
  /\ \E r \in IF mutations[m].single THEN MutationRowResponses ELSE MutationListResponses :
       mutations' = [mutations EXCEPT ![m] =
                       [@ EXCEPT !.settled = TRUE, !.response = r,
                                 !.promise = IF mutations[m].single THEN RowOutcome(r)
                                             ELSE ListOutcome(r)]]
  /\ UNCHANGED <<store, supplied, queries, mapped, hist, outcome, steps, entity, requests>>

\* the terminal invocations made on the mutations so far
RECURSIVE InvokedOn(_)
InvokedOn(ms) == IF ms = <<>> THEN 0 ELSE Head(ms).invoked + InvokedOn(Tail(ms))

\* await mutation.many() / manyOrThrow() / one() / oneOrThrow() / execute() /
\* executeOrThrow(): the caller has the method's result
Invoke(m) ==
  /\ mutations[m].settled
  /\ InvokedOn(mutations) < MaxExec
  /\ \E method \in IF mutations[m].single THEN SingleMethods ELSE MultiMethods :
       \E ran \in {IF mutations[m].single THEN SingleMutationQuery(mutations[m], method)
                   ELSE MultiMutationQuery(mutations[m], method)} :
         /\ outcome' = [op |-> method, kind |-> "mutation", subject |-> m,
                        response |-> mutations[m].response, result |-> ran.result,
                        sent |-> ran.built]
         /\ requests' = requests \o [i \in 1..Len(ran.built) |-> Request(m, ran.built[i])]
  /\ mutations' = [mutations EXCEPT ![m].invoked = @ + 1]
  /\ UNCHANGED <<store, supplied, queries, mapped, hist, steps, entity>>

NextMutation ==
  \/ AddItems
  \/ UpdateItem
  \/ UpdateItems
  \/ \E m \in 1..Len(mutations) : Settle(m)
  \/ \E m \in 1..Len(mutations) : Invoke(m)

SpecMutation == InitMutation /\ [][NextMutation]_vars

(***************************************************************************)
(* What the backend does with a compiled query (PostgREST, as the spec's   *)
(* backend contract describes it): the filter calls of one builder are     *)
(* AND-ed; or(...) takes clauses separated by commas and matches a row     *)
(* that satisfies any one of them; eq never matches null.                  *)
(***************************************************************************)
RowFields == Fields \cup {"deleted"}
RowValues == {"null", "x", "y"}
Rows == [RowFields -> RowValues]

\* rows that also carry the identifier column
IdRows ==
  {[f \in RowFields \cup {"id"} |-> IF f = "id" THEN id ELSE row[f]] :
     row \in Rows, id \in {"id1", "id2"}}

TokenRank(tok) == IF tok = "0" THEN 0 ELSE IF tok = "x" THEN 1 ELSE 2

Compares(op, a, b) ==
  /\ a # "null" /\ b # "null"
  /\ CASE op = "gt" -> TokenRank(a) > TokenRank(b)
       [] op = "gte" -> TokenRank(a) >= TokenRank(b)
       [] op = "lt" -> TokenRank(a) < TokenRank(b)
       [] op = "lte" -> TokenRank(a) <= TokenRank(b)
       [] op = "neq" -> a # b
       [] OTHER -> a = b

ClauseHolds(cl, row) ==
  /\ cl.f \in DOMAIN row
  /\ CASE cl.op = "eq" -> cl.v # "null" /\ row[cl.f] = cl.v
       [] cl.op = "is" -> row[cl.f] = cl.v
       [] cl.op = "in" -> \E x \in 1..Len(cl.vs) : row[cl.f] = cl.vs[x]
       [] OTHER -> FALSE

EqHolds(f, v, row) == f \in DOMAIN row /\ v.t = "lit" /\ v.v # "null" /\ row[f] = v.v

CallHolds(c, row) ==
  CASE c.op = "match" -> \A i \in 1..Len(c.m) : EqHolds(c.m[i].k, c.m[i].v, row)
    [] c.op = "eq" -> EqHolds(c.f, c.v, row)
    [] c.op = "is" -> c.f \in DOMAIN row /\ row[c.f] = c.v.v
    [] c.op = "in" ->
         c.f \in DOMAIN row /\ \E x \in 1..Len(ListOf(c.v.v)) : row[c.f] = ListOf(c.v.v)[x]
    [] c.op = "or" -> \E i \in 1..Len(c.cl) : ClauseHolds(c.cl[i], row)
    [] c.op \in CmpOps -> c.f \in DOMAIN row /\ Compares(c.op, row[c.f], c.v.v)
    [] OTHER -> TRUE

BackendMatches(calls, row) == \A i \in 1..Len(calls) : CallHolds(calls[i], row)

(***************************************************************************)
(* Vocabulary of the properties.                                           *)
(***************************************************************************)
\* the condition objects of query q, as the caller supplied them
Branches(q) ==
  [i \in 1..Len(queries[q].conditions) |-> supplied[queries[q].conditions[i]]]

Count(s, Test(_)) == Len(SelectSeq(s, Test))

SingleBranch(q) == Len(queries[q].conditions) = 1
MultiBranch(q) == Len(queries[q].conditions) >= 2

\* what a branch asks of a row: every predicate of the branch
Satisfies(condition, row) ==
  /\ \A i \in 1..Len(condition.where) :
       LET e == condition.where[i]
       IN /\ e.k \in RowFields
          /\ e.v.t = "lit"
          /\ row[e.k] = e.v.v
  /\ condition.is.def =>
       \A i \in 1..Len(condition.is.m) :
         row[condition.is.m[i].k] = condition.is.m[i].v
  /\ condition.wherein.def =>
       \A i \in 1..Len(condition.wherein.m) :
         LET e == condition.wherein.m[i]
         IN \E x \in 1..Len(ListOf(e.v)) : row[e.k] = ListOf(e.v)[x]

\* the calls between the soft-delete constraint and or(...) of a multi-branch compile
CommonPart(calls) ==
  SelectSeq(SubSeq(calls, 4, Len(calls)), LAMBDA c : c.op \in {"eq", "is"})

OrCalled(calls) == \E i \in 1..Len(calls) : calls[i].op = "or"

OrClauses(calls) ==
  IF OrCalled(calls) THEN calls[CHOOSE i \in 1..Len(calls) : calls[i].op = "or"].cl
  ELSE <<>>

\* key k has, in every branch, a value strictly equal to branch 0's
SharedKey(bs, k) ==
  /\ \A i \in 1..Len(bs) : \E x \in 1..Len(bs[i].where) : bs[i].where[x].k = k
  /\ \A i \in 1..Len(bs) : StrictEq(Get(bs[i].where, k), Get(bs[1].where, k))

\* the number of branches whose where (whose is) has key k
InWhere(bs, k) == Count(bs, LAMBDA b : Has(b.where, k))
InIs(bs, k) == Count(bs, LAMBDA b : b.is.def /\ Has(b.is.m, k))

(***************************************************************************)
(* C1.  A multi-branch compile matches a row exactly when the row is not   *)
(* soft-deleted and satisfies every predicate of at least one branch (OR   *)
(* across branches, AND inside each branch).                               *)
(***************************************************************************)
C1_OrAcrossAndInside ==
  \A q \in 1..Len(queries) : \A j \in 1..Len(hist[q]) :
    MultiBranch(q) =>
      \A row \in Rows :
        BackendMatches(hist[q][j], row)
          <=> /\ row["deleted"] = "null"
              /\ \E i \in 1..Len(Branches(q)) : Satisfies(Branches(q)[i], row)

(***************************************************************************)
(* C2.  A single-branch compile issues its filter calls in this order:     *)
(* the equality match on the scalar where fields and the soft-delete       *)
(* constraint, then one in per wherein field, then one is per is field,    *)
(* then gt, gte, lt, lte, neq, then like, then ilike, one call per field   *)
(* in each group.                                                          *)
(***************************************************************************)
CallRank == <<"in", "is">> \o OpOrder

RankOf(op) == CHOOSE i \in 1..Len(CallRank) : CallRank[i] = op

\* the filter calls after the match and the soft-delete constraint
FilterTail(calls) == SelectSeq(SubSeq(calls, 5, Len(calls)), LAMBDA c : c.op \in AllOps)

C2_SingleBranchCallOrder ==
  \A q \in 1..Len(queries) : \A j \in 1..Len(hist[q]) :
    SingleBranch(q) =>
      LET calls == hist[q][j]
          tail == FilterTail(calls)
          condition == Branches(q)[1]
      IN /\ Len(calls) >= 4
         /\ calls[1].op = "from" /\ calls[2].op = "select" /\ calls[3].op = "match"
         /\ calls[4] = Call("is", "deleted", Lit("null"))
         /\ \A i \in 1..Len(condition.where) :
              condition.where[i].v.t = "lit" /\ condition.where[i].k \notin CmpOps
                => /\ Has(calls[3].m, condition.where[i].k)
                   /\ Get(calls[3].m, condition.where[i].k) = condition.where[i].v
         /\ \A x, y \in 1..Len(tail) :
              x < y => /\ RankOf(tail[x].op) <= RankOf(tail[y].op)
                       /\ ~(tail[x].op = tail[y].op /\ tail[x].f = tail[y].f)
         /\ condition.wherein.def =>
              \A k \in Keys(condition.wherein.m) :
                \E x \in 1..Len(tail) : tail[x].op = "in" /\ tail[x].f = k
         /\ condition.is.def =>
              \A k \in Keys(condition.is.m) :
                \E x \in 1..Len(tail) : tail[x].op = "is" /\ tail[x].f = k

\* a single-branch execution that issued in, is, two comparisons and a pattern call
C2_Witness ==
  /\ SingleBranch(1)
  /\ Len(hist[1]) >= 1
  /\ {"in", "is", "gte", "lte", "like"}
       \subseteq {FilterTail(hist[1][1])[x].op : x \in 1..Len(FilterTail(hist[1][1]))}

(***************************************************************************)
(* C3.  In a multi-branch compile a where key is hoisted exactly when      *)
(* every branch has it with a value equal to branch 0's.  A hoisted key    *)
(* gives one call before or(...) and no clause of where inside or(...); a  *)
(* key that is not hoisted gives no call before or(...) and one clause     *)
(* inside or(...) per branch that has it.                                  *)
(*   C3_HoistedAsEq states it as claimed: the call of a hoisted key is     *)
(*   eq(key, value) whatever the value.                                    *)
(*   C3_Hoisting is the amended statement: the call is eq(key, value), or  *)
(*   is(key, null) when the value is null.                                 *)
(***************************************************************************)
\* the clauses of or(...) on key k that where entries or is entries render
EqIsClauses(calls, k) ==
  Count(OrClauses(calls), LAMBDA cl : cl.f = k /\ cl.op \in {"eq", "is"})

HoistingWith(HoistCall(_, _)) ==
  \A q \in 1..Len(queries) : \A j \in 1..Len(hist[q]) :
    MultiBranch(q) =>
      LET calls == hist[q][j]
          bs == Branches(q)
          before == CommonPart(calls)
      IN \A k \in Fields :
           LET onKey == SelectSeq(before, LAMBDA c : c.f = k)
           IN IF SharedKey(bs, k)
                THEN /\ onKey = <<HoistCall(k, Get(bs[1].where, k))>>
                     /\ OrCalled(calls) => EqIsClauses(calls, k) = InIs(bs, k)
                ELSE /\ onKey = <<>>
                     /\ OrCalled(calls) =>
                          EqIsClauses(calls, k) = InWhere(bs, k) + InIs(bs, k)
                     /\ ~OrCalled(calls) => InWhere(bs, k) = 0

HoistAsEq(k, v) == Call("eq", k, v)

HoistAsEqOrIsNull(k, v) == IF IsNull(v) THEN Call("is", k, Lit("null")) ELSE Call("eq", k, v)

NullInEveryBranch(bs, k) ==
  \A i \in 1..Len(bs) : Has(bs[i].where, k) /\ IsNull(Get(bs[i].where, k))

C4_CommonNullUsesIs ==
  \A q \in 1..Len(queries) : \A j \in 1..Len(hist[q]) :
    MultiBranch(q) =>
      \A k \in Fields :
        NullInEveryBranch(Branches(q), k) =>
          /\ \E x \in 1..Len(CommonPart(hist[q][j])) :
               CommonPart(hist[q][j])[x] = Call("is", k, Lit("null"))
          /\ \A x \in 1..Len(hist[q][j]) :
               ~(hist[q][j][x].op = "eq" /\ hist[q][j][x].f = k)

\* a compiled multi-branch query whose branches all have a: null
C4_Witness ==
  /\ MultiBranch(1)
  /\ Len(hist[1]) >= 1
  /\ NullInEveryBranch(Branches(1), "a")

(***************************************************************************)
(* C5.  When every branch of a multi-branch query has the same where and   *)
(* no other slot is populated, the compile never calls or(...): it issues  *)
(* the soft-delete constraint and one common equality call per where key.  *)
(***************************************************************************)
IdenticalWheresOnly(bs) ==
  \A i \in 1..Len(bs) :
    /\ Len(bs[i].where) = Len(bs[1].where)
    /\ \A x \in 1..Len(bs[1].where) :
         /\ bs[i].where[x].k = bs[1].where[x].k
         /\ StrictEq(bs[i].where[x].v, bs[1].where[x].v)
    /\ ~bs[i].is.def
    /\ ~bs[i].wherein.def

IdenticalWheres(bs) ==
  \A i \in 1..Len(bs) :
    /\ Len(bs[i].where) = Len(bs[1].where)
    /\ \A x \in 1..Len(bs[1].where) :
         /\ bs[i].where[x].k = bs[1].where[x].k
         /\ StrictEq(bs[i].where[x].v, bs[1].where[x].v)

C6_OtherSlotsStillRendered ==
  \A q \in 1..Len(queries) : \A j \in 1..Len(hist[q]) :
    MultiBranch(q) /\ IdenticalWheres(Branches(q)) =>
      \A i \in 1..Len(Branches(q)) :
        LET b == Branches(q)[i]
            rendered == IsParts(b.is) \o WhereinParts(b.wherein)
        IN \A x \in 1..Len(rendered) :
             \E y \in 1..Len(OrClauses(hist[q][j])) : OrClauses(hist[q][j])[y] = rendered[x]

(***************************************************************************)
(* C7.  In a single-branch compile every operator embedded in a where      *)
(* field, { f: { op: v } }, gives the backend call op(f, v) in that same   *)
(* execution, also when the query was created without wherein or is.      *)
(***************************************************************************)
C7_EmbeddedOperatorsCalled ==
  \A q \in 1..Len(queries) : \A j \in 1..Len(hist[q]) :
    SingleBranch(q) =>
      \A i \in 1..Len(Branches(q)[1].where) :
        LET e == Branches(q)[1].where[i]
        IN e.v.t = "obj" /\ e.k \notin CmpOps =>
             \A x \in 1..Len(e.v.o) :
               e.v.o[x].k \in AllOps =>
                 \E y \in 1..Len(hist[q][j]) :
                   hist[q][j][y] = Call(e.v.o[x].k, e.k, Lit(e.v.o[x].v))

(***************************************************************************)
(* C8.  Compilation is pure: a terminal operation leaves the condition     *)
(* objects as the caller supplied them, and every execution of a Query     *)
(* issues the call sequence its first execution issued.                    *)
(***************************************************************************)
C8_CompilationIsPure ==
  /\ \A i \in 1..Len(store) : store[i] = supplied[i]
  /\ \A q \in 1..Len(queries) : \A j \in 1..Len(hist[q]) : hist[q][j] = hist[q][1]

(***************************************************************************)
(* C9.  No execution observes state written by another: the first          *)
(* execution of a Query issues the calls it compiles to from the condition *)
(* objects as supplied, whichever other Query values derived from the same *)
(* ancestor were executed before it.                                       *)
(***************************************************************************)
C9_SiblingsIndependent ==
  \A q \in 1..Len(queries) :
    Len(hist[q]) >= 1 => hist[q][1] = BuildSupabaseQuery(queries[q], supplied).calls

(***************************************************************************)
(* C10.  A chain operation leaves the Query it is applied to, and every    *)
(* other existing value, unchanged: configuration, condition objects,      *)
(* MappedQuery values and the call sequence each Query compiles to are the *)
(* same before and after; or(...) builds a new condition list.             *)
(***************************************************************************)
ChainStep == Len(queries') + Len(mapped') > Len(queries) + Len(mapped)

C10_ChainLeavesQueryUnchanged ==
  [][ChainStep =>
       /\ \A q \in 1..Len(queries) :
            /\ queries'[q] = queries[q]
            /\ BuildSupabaseQuery(queries'[q], store').calls
                 = BuildSupabaseQuery(queries[q], store).calls
       /\ \A i \in 1..Len(store) : store'[i] = store[i]
       /\ \A m \in 1..Len(mapped) : mapped'[m] = mapped[m]]_vars

\* a Query derived by or(...) or whereId(...) from a Query that was executed
C10_Witness ==
  /\ Len(queries) >= 2
  /\ Len(queries[2].conditions) = Len(queries[1].conditions) + 1
  /\ Len(hist[1]) >= 1

(***************************************************************************)
(* Vocabulary of the properties on terminal operations.                    *)
(***************************************************************************)
\* a terminal operation has ended, on a Query / on a MappedQuery
Ended(kind, ops) == outcome.kind = kind /\ outcome.op \in ops

\* the configuration of the Query that was executed
Source ==
  IF outcome.kind = "mapped" THEN mapped[outcome.subject].sourceQuery
  ELSE queries[outcome.subject]

\* the backend resolved without an error object
Answered == ~outcome.response.throws /\ outcome.response.error = NoError

Elements(s) == {s[i] : i \in 1..Len(s)}

\* the predicates of a Query's own filter(...) calls all hold on row r
Passes(config, r) ==
  \A i \in 1..Len(config.filterFn) : Holds(config.filterFn[i].p, Just(r)) = "true"

(***************************************************************************)
(* C11.  Every invocation of a terminal operation obtains one fresh        *)
(* builder (a call sequence that starts with from(table)) and sends it     *)
(* once, also when the backend answers with an error or throws: nothing is *)
(* retried and nothing is cached, so each invocation on a Query adds       *)
(* exactly one execution to that Query's executions.                       *)
(***************************************************************************)
TerminalStep ==
  \/ outcome' # outcome
  \/ \E q \in 1..Len(hist) : hist'[q] # hist[q]

C11_OneExecutionPerInvocation ==
  [][TerminalStep =>
       /\ Len(outcome'.sent) = 1
       /\ Head(outcome'.sent[1]) = Call("from", Source'.table, NoVal)
       /\ outcome'.kind = "query" =>
            hist' = [hist EXCEPT ![outcome'.subject] = Append(@, outcome'.sent[1])]]_vars

\* first() invoked again on a Query after an execution, the backend failing
C11_Witness ==
  /\ Ended("query", {"first"})
  /\ Len(hist[outcome.subject]) >= 2
  /\ outcome.result.tag = "Err"

(***************************************************************************)
(* C12.  one(), many() and first() of a Query never reject: a backend      *)
(* error object, or a throw of the backend call, gives a failure outcome   *)
(* carrying that error.                                                    *)
(*   C12_SuccessOtherwise states it as claimed: the outcome is a success   *)
(*   in every other case.                                                  *)
(*   C12_NeverRejects is the amended statement: in the other cases the     *)
(*   outcome is a success unless the client-side filter predicate throws,  *)
(*   which is caught the same way and gives a failure carrying what was    *)
(*   thrown.                                                               *)
(***************************************************************************)
\* the client-side filter throws on what the backend resolved with
FilterThrows ==
  IF outcome.op = "one"
    THEN FilterFn(Source.filterFn, SingleRow(outcome.response)) = "throws"
    ELSE \E i \in 1..Len(outcome.response.data) :
           FilterFn(Source.filterFn, Just(outcome.response.data[i])) = "throws"

ExplicitErrorWith(FilterMayThrow) ==
  Ended("query", {"one", "many", "first"}) =>
    /\ outcome.result.tag \in {"Ok", "Err"}
    /\ ~Answered => outcome.result = Err(outcome.response.error)
    /\ Answered =>
         IF FilterMayThrow /\ FilterThrows THEN outcome.result = Err(TypeError)
         ELSE outcome.result.tag = "Ok"

C13_NoRowIsEmptyOption ==
  Ended("query", {"one"}) /\ outcome.response = Resolved(<<>>) => outcome.result = Ok(<<>>)

(***************************************************************************)
(* C14.  one() of a Query on a single backend row: when the row fails the  *)
(* client-side filter the outcome is a success holding an empty Option;    *)
(* when it passes, or no filter is set, the Option holds that row.         *)
(***************************************************************************)
C14_OneAppliesFilter ==
  Ended("query", {"one"}) /\ Answered /\ outcome.response.data # <<>> =>
    LET r == outcome.response.data[1]
    IN outcome.result = (IF Passes(Source, r) THEN Ok(<<Just(r)>>) ELSE Ok(<<>>))

\* one() on a row that its filter rejects
C14_Witness ==
  /\ Ended("query", {"one"})
  /\ Answered
  /\ outcome.response.data # <<>>
  /\ Source.filterFn # <<>>
  /\ ~Passes(Source, outcome.response.data[1])
  /\ outcome.result = Ok(<<>>)

Unwraps(counterpart, valueExpected) ==
  /\ counterpart.tag = "Err" =>
       /\ outcome.result.tag = "Thrown"
       /\ counterpart.error.message \in Elements(outcome.result.message)
  /\ counterpart.tag = "Ok" /\ counterpart.items = <<>> /\ valueExpected =>
       /\ outcome.result.tag = "Thrown"
       /\ Source.table \in Elements(outcome.result.message)
  /\ counterpart.tag = "Ok" /\ (counterpart.items # <<>> \/ ~valueExpected) =>
       outcome.result = Returned(counterpart.items)

C16_ThrowingVariants ==
  /\ Ended("query", {"oneOrThrow"}) =>
       Unwraps(OneOf(Source, outcome.response).result, TRUE)
  /\ Ended("query", {"firstOrThrow"}) =>
       Unwraps(FirstOf(Source, outcome.response).result, TRUE)
  /\ Ended("query", {"manyOrThrow"}) =>
       Unwraps(ManyOf(Source, outcome.response).result, FALSE)

\* oneOrThrow() threw its not-found error
C16_Witness ==
  /\ Ended("query", {"oneOrThrow"})
  /\ outcome.response = Resolved(<<>>)
  /\ outcome.result.tag = "Thrown"

(***************************************************************************)
(* C17.  oneOrThrow() and firstOrThrow() of a MappedQuery whose result is  *)
(* an empty Option throw a not-found error whose message names the table.  *)
(***************************************************************************)
C17_MappedNotFoundNamesTable ==
  /\ Ended("mapped", {"oneOrThrow"})
       /\ MappedOneOf(mapped[outcome.subject], outcome.response).result = Ok(<<>>)
       => /\ outcome.result.tag = "Thrown"
          /\ Source.table \in Elements(outcome.result.message)
  /\ Ended("mapped", {"firstOrThrow"})
       /\ MappedFirstOf(mapped[outcome.subject], outcome.response).result = Ok(<<>>)
       => /\ outcome.result.tag = "Thrown"
          /\ Source.table \in Elements(outcome.result.message)

(***************************************************************************)
(* C18.  one() and first() of a MappedQuery give a failure exactly when    *)
(* the source does (the same error), an empty Option exactly when the      *)
(* source does, and otherwise an Option holding fn(row); many() gives the  *)
(* list of fn(row) for the source's rows, same length and order.           *)
(***************************************************************************)
MapsOption(source) ==
  /\ source.tag = "Err" => outcome.result = source
  /\ source.tag = "Ok" /\ source.items = <<>> => outcome.result = Ok(<<>>)
  /\ source.tag = "Ok" /\ source.items # <<>> =>
       outcome.result = Ok(<<MapFn(mapped[outcome.subject].mapFn, source.items[1])>>)

C18_MappedFollowsSource ==
  /\ Ended("mapped", {"one"}) => MapsOption(OneOf(Source, outcome.response).result)
  /\ Ended("mapped", {"first"}) => MapsOption(FirstOf(Source, outcome.response).result)
  /\ Ended("mapped", {"many"}) =>
       LET source == ManyOf(Source, outcome.response).result
       IN /\ source.tag = "Err" => outcome.result = source
          /\ source.tag = "Ok" =>
               outcome.result = Ok([i \in 1..Len(source.items) |->
                                      MapFn(mapped[outcome.subject].mapFn, source.items[i])])

(***************************************************************************)
(* C19.  query.map(f).map(g) run with many() over the backend's rows gives *)
(* g(f(row)) for each row the source Query yields, in backend order, and   *)
(* executes the source Query once.                                         *)
(***************************************************************************)
C19_MapComposition ==
  Ended("mapped", {"many"}) /\ Len(mapped[outcome.subject].mapFn) = 2 =>
    LET f == mapped[outcome.subject].mapFn[1]
        g == mapped[outcome.subject].mapFn[2]
        source == ManyOf(Source, outcome.response).result
    IN /\ Len(outcome.sent) = 1
       /\ source.tag = "Ok" =>
            outcome.result = Ok([i \in 1..Len(source.items) |->
                                   Apply(g, Apply(f, source.items[i]))])

\* query.map(inc).map(dbl).many() over three rows
C19_Witness ==
  /\ Ended("mapped", {"many"})
  /\ mapped[outcome.subject].mapFn = <<"inc", "dbl">>
  /\ Source.filterFn = <<>>
  /\ outcome.response.data = <<2, 3, 1>>
  /\ outcome.result = Ok(<<Just(6), Just(8), Just(4)>>)

(***************************************************************************)
(* C20.  For a MappedQuery built by map and filter calls, a backend row r  *)
(* is in the result of many() exactly when it passes the source Query's    *)
(* own filter and, for every filter(p) call of the chain, p holds on the   *)
(* value r was mapped to at that point of the chain; the element for a     *)
(* surviving row is the fully mapped value; first() gives the head.        *)
(***************************************************************************)
\* the steps of the pipeline that were filter(...) calls: the mapping function
\* is the one of the MappedQuery before
FilterSteps(m) == {k \in 2..m : mapped[k].mapFn = mapped[k - 1].mapFn}

Last(s) == s[Len(s)]

Survives(m, r) ==
  /\ Passes(queries[Len(queries)], r)
  /\ \A k \in FilterSteps(m) :
       Holds(Last(mapped[k].sourceQuery.filterFn).p, MapFn(mapped[k - 1].mapFn, Just(r)))
         = "true"

RECURSIVE LastCount(_, _)
LastCount(q, op) ==
  IF q = 0 THEN Undefined
  ELSE IF steps[q].op = op THEN steps[q].count
  ELSE LastCount(steps[q].from, op)

Unpaged(config) == [config EXCEPT !.limit = Undefined, !.offset = Undefined]

C21_LastPagingCallWins ==
  \A q \in 1..Len(queries) :
    /\ queries[q].limit = LastCount(q, "limit")
    /\ queries[q].offset = LastCount(q, "offset")
    /\ steps[q].op \in {"limit", "offset"} =>
         Unpaged(queries[q]) = Unpaged(queries[steps[q].from])

\* createQuery(...).limit(2).limit(2).offset(2).many(): the limit stays 2
C21_Witness ==
  /\ Len(queries) = 4
  /\ steps[2] = Step("limit", 2, 1)
  /\ steps[3] = Step("limit", 2, 2)
  /\ steps[4] = Step("offset", 2, 3)
  /\ queries[4].limit = 2
  /\ queries[3].offset = Undefined
  /\ Ended("query", {"many"})

(***************************************************************************)
(* C22.  For every n >= 0, a Query carrying limit(n) asks the backend for  *)
(* at most n rows, through limit(n) or through a range of at most n        *)
(* positions, and many() resolves with at most n rows.                     *)
(***************************************************************************)
\* the pagination calls of a call sequence
Paging(calls) == SelectSeq(calls, LAMBDA c : c.op \in {"limit", "range"})

\* the number of rows a pagination call asks for
Asks(c) == IF c.op = "limit" THEN c.lo ELSE c.hi - c.lo + 1

C22_LimitBoundsRows ==
  Ended("query", {"many"}) /\ Source.limit # Undefined =>
    /\ Paging(outcome.sent[1]) # <<>>
    /\ Asks(Paging(outcome.sent[1])[1]) <= Source.limit
    /\ Len(outcome.result.items) <= Source.limit

(***************************************************************************)
(* C23.  The soft-delete policy of a Query decides the constraint on the   *)
(* deleted marker in the single-branch and in the multi-branch compile:    *)
(* exclude gives is("deleted", null), only gives the negated test, include *)
(* gives no call on deleted.  The Query values here come from an Entity,   *)
(* whose configuration sets the policy: exclude when softDelete is true,   *)
(* include when it is false.                                               *)
(***************************************************************************)
\* the calls of a compiled query that constrain the deleted marker
DeletedCalls(calls) == SelectSeq(calls, LAMBDA c : c.f = "deleted")

C23_PolicyDecidesDeletedConstraint ==
  \A q \in 1..Len(queries) : \A e \in 1..Len(hist[q]) :
    LET mode == SoftDeleteMode(entity)
        constraint == DeletedCalls(hist[q][e])
    IN /\ mode = "exclude" => constraint = <<Call("is", "deleted", Lit("null"))>>
       /\ mode = "only" => constraint = <<Call("not", "deleted", Lit("is.null"))>>
       /\ mode = "include" => constraint = <<>>

(***************************************************************************)
(* C24.  q.whereId(id) filters by id: the compiled q.whereId(id) matches a *)
(* row only if the row's id is the given id; q.orWhereId(id) adds the id   *)
(* as an alternative: it matches every row, not deleted, with that id.     *)
(***************************************************************************)
\* the id handed to the whereId / orWhereId call that made Query q
IdOf(q) == Get(supplied[queries[q].conditions[Len(queries[q].conditions)]].where, "id").v

C24_WhereIdFiltersById ==
  \A q \in 1..Len(queries) : \A e \in 1..Len(hist[q]) : \A row \in IdRows :
    /\ steps[q].op = "whereId" /\ BackendMatches(hist[q][e], row) => row["id"] = IdOf(q)
    /\ steps[q].op = "orWhereId" /\ row["id"] = IdOf(q) /\ row["deleted"] = "null" =>
         BackendMatches(hist[q][e], row)

(***************************************************************************)
(* C25.  For an Entity configured with a partition key, every query        *)
(* compiled from a Query that getItem / getItems returned, or that was     *)
(* chained from one with or(...), constrains each partition field to the   *)
(* configured value: the backend matches no row of another partition.      *)
(***************************************************************************)
InPartition(row) ==
  \A i \in 1..Len(entity.partitionKey.m) :
    row[entity.partitionKey.m[i].k] = entity.partitionKey.m[i].v.v

C25_PartitionKeyAlwaysConstrains ==
  entity.partitionKey.def =>
    \A q \in 1..Len(queries) : \A e \in 1..Len(hist[q]) : \A row \in IdRows :
      BackendMatches(hist[q][e], row) => InPartition(row)

(***************************************************************************)
(* C26.  In a multi-branch compile an operator object embedded in a        *)
(* branch's where, { f: { op: v } }, is rendered inside or(...) as the     *)
(* clause of that operator on f, and never as an equality clause on the    *)
(* object itself.                                                          *)
(***************************************************************************)
C26_OrBranchOperatorsRendered ==
  \A q \in 1..Len(queries) : \A j \in 1..Len(hist[q]) :
    MultiBranch(q) =>
      \A i \in 1..Len(Branches(q)) : \A k \in 1..Len(Branches(q)[i].where) :
        LET e == Branches(q)[i].where[k]
            clauses == OrClauses(hist[q][j])
        IN e.v.t = "obj" /\ e.k \notin CmpOps =>
             /\ \A x \in 1..Len(e.v.o) :
                  e.v.o[x].k \in AllOps =>
                    \E y \in 1..Len(clauses) :
                      clauses[y].f = e.k /\ clauses[y].op = e.v.o[x].k
             /\ ~\E y \in 1..Len(clauses) :
                  clauses[y].f = e.k /\ clauses[y].op = "eq" /\ clauses[y].v = e.v.v

(***************************************************************************)
(* C27.  A field given for the same operator both in an operator object    *)
(* embedded in its where entry, { f: { op: v } }, and in a top-level       *)
(* operator map of where, { op: { f: w } }, gets exactly one backend call  *)
(* op(f, ...) in a single-branch compile, and the call carries the         *)
(* top-level map's value w.                                                *)
(***************************************************************************)
\* the calls op(f, ...) of a call sequence
CallsOn(calls, op, f) == SelectSeq(calls, LAMBDA c : c.op = op /\ c.f = f)

\* where gives field f for operator op both ways
GivenTwice(where, op, f) ==
  /\ Has(where, op) /\ IsOperatorObject(Get(where, op)) /\ Has(Get(where, op).o, f)
  /\ Has(where, f) /\ IsOperatorObject(Get(where, f)) /\ Has(Get(where, f).o, op)

C27_TopLevelValueWins ==
  \A q \in 1..Len(queries) : \A j \in 1..Len(hist[q]) :
    SingleBranch(q) =>
      \A op \in CmpOps : \A f \in Fields :
        LET where == Branches(q)[1].where
        IN GivenTwice(where, op, f) =>
             CallsOn(hist[q][j], op, f) = <<Call(op, f, Lit(Get(Get(where, op).o, f)))>>

(***************************************************************************)
(* C28.  Pagination is compiled last, after the conditions and the         *)
(* ordering.  With limit L > 0 and offset O >= 0, set in either order, the *)
(* one pagination call is range(O, O + L - 1); with a limit L > 0 only it  *)
(* is limit(L); with an offset only it is range(O, MAX_SAFE_INTEGER).  So  *)
(* two pages of the same limit L requested at offsets O and O + L are      *)
(* contiguous and share no row.                                            *)
(***************************************************************************)
\* the executions of the pipeline: the Query and one of its call sequences
Requested == {x \in (1..Len(queries)) \X (1..MaxExec) : x[2] <= Len(hist[x[1]])}

C28_PaginationCompiledLast ==
  /\ \A x \in Requested :
       LET config == queries[x[1]]
           calls == hist[x[1]][x[2]]
           L == config.limit
           O == config.offset
       IN /\ L # Undefined /\ L > 0 /\ O # Undefined =>
               Paging(calls) = <<RangeCall("range", O, O + L - 1)>>
          /\ L # Undefined /\ L > 0 /\ O = Undefined =>
               Paging(calls) = <<RangeCall("limit", L, 0)>>
          /\ L = Undefined /\ O # Undefined =>
               Paging(calls) = <<RangeCall("range", O, MAX_SAFE_INTEGER)>>
          /\ Paging(calls) # <<>> =>
               /\ Last(calls) = Paging(calls)[1]
               /\ config.order.def => calls[Len(calls) - 1].op = "order"
  /\ \A x \in Requested, y \in Requested :
       LET p == queries[x[1]]
           n == queries[y[1]]
           page == Paging(hist[x[1]][x[2]])
           next == Paging(hist[y[1]][y[2]])
       IN /\ p.limit # Undefined /\ p.limit > 0 /\ n.limit = p.limit
          /\ p.offset # Undefined /\ n.offset = p.offset + p.limit
          => /\ next[1].lo = page[1].hi + 1
             /\ Elements(Page(hist[x[1]][x[2]], TableRows))
                  \cap Elements(Page(hist[y[1]][y[2]], TableRows)) = {}

\* createQuery(...).offset(0).limit(2).offset(2): the pages at offsets 0 and 2 of
\* an ordered query were both requested
C28_Witness ==
  /\ Len(queries) = 4
  /\ queries[1].order.def
  /\ steps[2].op = "offset" /\ steps[3].op = "limit" /\ steps[4].op = "offset"
  /\ queries[3].limit = 2 /\ queries[3].offset = 0
  /\ queries[4].limit = 2 /\ queries[4].offset = 2
  /\ Len(hist[3]) = 1 /\ Len(hist[4]) = 1
  /\ Paging(hist[3][1]) = <<RangeCall("range", 0, 1)>>
  /\ Paging(hist[4][1]) = <<RangeCall("range", 2, 3)>>

(***************************************************************************)
(* C29.  In a single-branch compile a where field whose value is an        *)
(* operator object is never also passed to the equality match: whatever    *)
(* the operands, 0, the empty string, false and null included, the field   *)
(* is absent from the record handed to match(...).                         *)
(***************************************************************************)
\* the record handed to match(...)
Matched(calls) == calls[CHOOSE i \in 1..Len(calls) : calls[i].op = "match"].m

\* an object that holds at least one of the operators
HasOperator(v) == IsOperatorObject(v) /\ \E x \in 1..Len(v.o) : v.o[x].k \in AllOps

C29_OperatorFieldsNotMatched ==
  \A q \in 1..Len(queries) : \A j \in 1..Len(hist[q]) :
    SingleBranch(q) =>
      \A i \in 1..Len(Branches(q)[1].where) :
        LET e == Branches(q)[1].where[i]
        IN e.k \notin CmpOps /\ HasOperator(e.v) => ~Has(Matched(hist[q][j]), e.k)


(***************************************************************************)
(* C30.  A mutation made through the Entity facade sends its backend       *)
(* request exactly once, at the facade call: whatever number of execute,   *)
(* executeOrThrow, one / many and OrThrow invocations followed (none       *)
(* included), the backend holds one request per mutation, and each         *)
(* invocation gave the outcome of that one request: the failure the        *)
(* backend answered with, or the rows it answered with.                    *)
(***************************************************************************)
\* the backend's answer is a failure
Failed(response) == response.throws \/ response.error # NoError

\* what a method hands over of a successful answer
Handed(mutation, method) ==
  IF ~mutation.single THEN mutation.response.data
  ELSE IF method = "oneOrThrow" THEN SingleRow(mutation.response)
  ELSE Option(SingleRow(mutation.response))

C30_MutationIssuedOnce ==
  /\ Len(requests) = Len(mutations)
  /\ \A m \in 1..Len(mutations) : requests[m] = Request(m, mutations[m].builder)
  /\ outcome.kind = "mutation" =>
       LET mutation == mutations[outcome.subject]
           throwing == outcome.op \in {"manyOrThrow", "oneOrThrow", "executeOrThrow"}
       IN /\ outcome.sent = <<>>
          /\ outcome.response = mutation.response
          /\ IF Failed(mutation.response)
               THEN IF throwing THEN outcome.result = Thrown(<<mutation.response.error.message>>)
                    ELSE outcome.result = Err(mutation.response.error)
               ELSE /\ outcome.result.tag = IF throwing THEN "Returned" ELSE "Ok"
                    /\ outcome.result.items = Handed(mutation, outcome.op)

\* a mutation whose methods were invoked twice, one of them a throwing
\* variant, beside a mutation never invoked
C30_Witness ==
  /\ \E m \in 1..Len(mutations) : mutations[m].invoked = 2 /\ outcome.subject = m
  /\ \E m \in 1..Len(mutations) : mutations[m].invoked = 0
  /\ outcome.kind = "mutation"
  /\ outcome.op \in {"manyOrThrow", "oneOrThrow", "executeOrThrow"}
  /\ Len(requests) = 2

====
